---- MODULE Spec2Model ----
(***************************************************************************)
(* Caption acquisition pipeline of video-transcriber-summarizer:           *)
(*   api/limiter.py   fetch_slot        (admission gate)                   *)
(*   api/backoff.py   backoff           (retry executor)                   *)
(*   api/cache.py     cache_get/set     (TTL cache)                        *)
(*   api/captions.py  fetch_primary, fetch_fallback_ytdlp, get_captions    *)
(*   cloud_run_app.py process_video_job (the caller of the gate)           *)
(* Times are in seconds; backoff delays are in tenths of a second.         *)
(***************************************************************************)
EXTENDS Integers, Sequences, FiniteSets, TLC

VARIABLES
    gate,     \* limiter._fetch_gate: the BoundedSemaphore's free count
    leaked,   \* slots acquired by an __enter__ that raised before returning
    cache,    \* cache.py: video id -> NoRec or [ts, text] (one JSON file each)
    now,      \* time.time()
    started,  \* number of process_video_job calls started so far
    pc,       \* per caller: position inside process_video_job
    vid,      \* per caller: the video id of the current job
    job,      \* per caller: locals and history of the current get_captions call
    fetched,  \* per video: what the latest successful upstream fetch returned
    bo,       \* one call of a backoff-wrapped operation (SpecBackoff)
    USE_YTDLP, \* captions.USE_YTDLP, read from ENABLE_YTDLP_FALLBACK at import
    pf,       \* one call of a pure function: its arguments and its result
    disk,     \* "ok", or "broken": the cache directory's storage raises on every access
    file      \* one cache file and the cache_set / cache_get calls at work on it (SpecFile)

vars == <<gate, leaked, cache, now, started, pc, vid, job, fetched, bo, USE_YTDLP, pf,
          disk, file>>

----------------------------------------------------------------------------
(* Bounds of the model *)

MaxJobs == 2        \* process_video_job calls in one behaviour
MaxTicks == 3       \* clock ticks in one behaviour
MaxTries == 5       \* largest tries value tried in SpecBackoff
MaxTracks == 3      \* longest track list handed to the ranking in SpecRank
MaxListed == 2      \* longest track list handed to fetch_primary in SpecPrimary
MaxChunks == 2      \* most write() calls one record takes to reach its file in SpecFile
MaxLines == 2       \* most lines of a subtitle file handed to the stripping in SpecStrip
MaxItems == 3       \* most items of a transcript served to get_full_transcript in SpecFull
MaxChunkSize == 3   \* largest max_chunk_size tried in SpecFull

Callers == {"c1", "c2"}
Videos == {"v1", "v2"}
Texts == {"t1", "t2"}     \* transcripts the upstream may serve

----------------------------------------------------------------------------
(* Program constants *)

Capacity == 1             \* limiter.py: BoundedSemaphore(1)
MaxAge == 2592000         \* cache.py: max_age_seconds = 30*24*3600
PrimaryTries == 5         \* captions.py: @backoff(..., tries=5, base=0.8, cap=6.0, jitter=0.7)
PrimaryBase == 8
PrimaryCap == 60
PrimaryJitter == 7
DefaultBase == 8           \* backoff.py: backoff(on_exceptions, tries=5, base=0.8, cap=8.0, jitter=0.5)
DefaultCap == 80
DefaultJitter == 5
TickSeconds == MaxAge \div 2

NoRec == [ts |-> -1, text |-> "none"]
Rec(t, x) == [ts |-> t, text |-> x]

Min(a, b) == IF a < b THEN a ELSE b

RECURSIVE Pow2(_)
Pow2(n) == IF n <= 0 THEN 1 ELSE 2 * Pow2(n - 1)

----------------------------------------------------------------------------
(* Exception classes.  Every error class of youtube_transcript_api derives  *)
(* from CouldNotRetrieveTranscript (probe_transcript.py catches the         *)
(* specific classes first and the base class last); OtherError stands for   *)
(* any exception outside that hierarchy (network error, TypeError, ...).    *)

LibErrors == {"TooManyRequests", "CouldNotRetrieveTranscript", "NoTranscriptFound",
              "TranscriptsDisabled", "VideoUnavailable"}
Errors == LibErrors \cup {"OtherError"}

\* isinstance(e, cls)
IsInstance(e, cls) ==
    \/ e = cls
    \/ cls = "CouldNotRetrieveTranscript" /\ e \in LibErrors

\* `except classes:` catches e
Catches(classes, e) == \E k \in classes : IsInstance(e, k)

----------------------------------------------------------------------------
(* backoff.py: the retry executor *)

\* a wrapper that gives up one attempt early
OnFailureEarly(on_exceptions, tries, attempt, e) ==
    IF ~Catches(on_exceptions, e) THEN "propagate"
    ELSE IF attempt >= tries - 1 THEN "raise"
    ELSE "sleep"

\* a wrapper whose except clause catches every exception
OnFailureCatchAll(on_exceptions, tries, attempt, e) ==
    IF attempt = tries THEN "raise" ELSE "sleep"

\* backoff.wrapper, the except branch of one attempt: what follows a failure e
\* of attempt number `attempt` out of `tries`
OnFailure(on_exceptions, tries, attempt, e) ==
    IF ~Catches(on_exceptions, e) THEN "propagate"
    ELSE IF attempt = tries THEN "raise"
    ELSE "sleep"

\* a delay whose exponent is attempt instead of attempt - 1
PreJitterShifted(base, cap, attempt) == Min(cap, base * Pow2(attempt))

\* the deterministic part of sleep_for
PreJitter(base, cap, attempt) == Min(cap, base * Pow2(attempt - 1))

\* sleep_for, j being the value drawn by random.uniform(0, jitter)
SleepFor(base, cap, attempt, j) == PreJitter(base, cap, attempt) + j

----------------------------------------------------------------------------
(* captions.py: fetch_primary *)

\* outcomes of one upstream call
Ok(t) == [k |-> "text", v |-> t]
Empty == [k |-> "empty", v |-> "none"]
Raise(e) == [k |-> "raise", v |-> e]
\* outcomes of list_transcripts
ListRaise(e) == [k |-> "raise", v |-> e, tracks |-> <<>>]
Listed(ts) == [k |-> "tracks", v |-> "none", tracks |-> ts]
\* a Track: language_code, is_generated, is_translatable, the outcome of its
\* fetch() and of its translate(translate_to).fetch()
Track(l, g, tr, f, tf) == [lang |-> l, gen |-> g, transl |-> tr, fetch |-> f, tfetch |-> tf]

\* results of fetch_primary / fetch_fallback_ytdlp
Ret(t, p, l, g) == [kind |-> "return", text |-> t, path |-> p, lang |-> l, gen |-> g, exc |-> "none"]
Thr(e) == [kind |-> "raise", text |-> "none", path |-> "none", lang |-> "none", gen |-> FALSE, exc |-> e]
Fall == [kind |-> "next", text |-> "none", path |-> "none", lang |-> "none", gen |-> FALSE, exc |-> "none"]

prefer == <<"en", "en-US", "en-GB">>
on_exceptions == {"TooManyRequests", "CouldNotRetrieveTranscript"}

InPrefer(l) == \E i \in 1..Len(prefer) : prefer[i] = l

\* a rank whose bonus favours generated tracks
rank_generated_first(t) ==
    LET pref == IF InPrefer(t.lang)
                THEN (CHOOSE i \in 1..Len(prefer) : prefer[i] = t.lang) - 1
                ELSE Len(prefer) + 1
        manual_bonus == IF t.gen THEN 0 ELSE 1
    IN 2 * pref + manual_bonus

\* rank(t): (pref, manual_bonus) as one number, pref being the more significant
rank(t) ==
    LET pref == IF InPrefer(t.lang)
                THEN (CHOOSE i \in 1..Len(prefer) : prefer[i] = t.lang) - 1
                ELSE Len(prefer) + 1
        manual_bonus == IF ~t.gen THEN 0 ELSE 1
    IN 2 * pref + manual_bonus

\* sorted(list(tlist), key=rank): a stable insertion sort
RECURSIVE InsertByRank(_, _)
InsertByRank(t, s) ==
    IF s = <<>> THEN <<t>>
    ELSE IF rank(t) < rank(s[1]) THEN <<t>> \o s
    ELSE <<s[1]>> \o InsertByRank(t, Tail(s))

RECURSIVE SortedByRank(_)
SortedByRank(s) ==
    IF s = <<>> THEN <<>>
    ELSE InsertByRank(s[Len(s)], SortedByRank(SubSeq(s, 1, Len(s) - 1)))

\* "same-language first": a fetch that raises is not caught here
RECURSIVE SameLanguagePass(_, _)
SameLanguagePass(cands, i) ==
    IF i > Len(cands) THEN Fall
    ELSE LET c == cands[i] IN
         IF ~InPrefer(c.lang) THEN SameLanguagePass(cands, i + 1)
         ELSE IF c.fetch.k = "raise" THEN Thr(c.fetch.v)
         ELSE IF c.fetch.k = "text" THEN Ret(c.fetch.v, "primary_list", c.lang, c.gen)
         ELSE SameLanguagePass(cands, i + 1)

\* a translate pass without its try/except: the first translatable candidate
\* whose translate().fetch() raises ends the attempt with that error
TranslatePassFatal(cands, i) ==
    LET idx == {j \in i..Len(cands) :
                    cands[j].transl /\ cands[j].tfetch.k \in {"text", "raise"}}
    IN IF idx = {} THEN Fall
       ELSE LET j == CHOOSE j \in idx : \A k \in idx : j <= k
            IN IF cands[j].tfetch.k = "text"
               THEN Ret(cands[j].tfetch.v, "primary_translated", cands[j].lang, cands[j].gen)
               ELSE Thr(cands[j].tfetch.v)

\* "translate if allowed": except Exception: continue
RECURSIVE TranslatePass(_, _)
TranslatePass(cands, i) ==
    IF i > Len(cands) THEN Fall
    ELSE LET c == cands[i] IN
         IF c.transl /\ c.tfetch.k = "text"
         THEN Ret(c.tfetch.v, "primary_translated", c.lang, c.gen)
         ELSE TranslatePass(cands, i + 1)

\* "any manual then any generated": one bucket, except Exception: continue
RECURSIVE AnyPass(_, _)
AnyPass(bucket, i) ==
    IF i > Len(bucket) THEN Fall
    ELSE LET c == bucket[i] IN
         IF c.fetch.k = "text" THEN Ret(c.fetch.v, "primary_any", c.lang, c.gen)
         ELSE AnyPass(bucket, i + 1)

RECURSIVE Filter(_, _)
Filter(s, g) ==
    IF s = <<>> THEN <<>>
    ELSE IF s[1].gen = g THEN <<s[1]>> \o Filter(Tail(s), g)
    ELSE Filter(Tail(s), g)

\* fetch_primary from "2) list & pick" on, the listing having returned tlist
ListAndPick(tlist) ==
    LET cands == SortedByRank(tlist)
        p1 == SameLanguagePass(cands, 1)
        p2 == TranslatePass(cands, 1)
        p3 == AnyPass(Filter(tlist, FALSE), 1)
        p4 == AnyPass(Filter(tlist, TRUE), 1)
    IN IF p1.kind # "next" THEN p1
       ELSE IF p2.kind # "next" THEN p2
       ELSE IF p3.kind # "next" THEN p3
       ELSE IF p4.kind # "next" THEN p4
       ELSE Thr("NoTranscriptFound")

\* a fetch_primary whose fast path returns without `if text`
fetch_primary_unchecked(direct, listing) ==
    IF direct.k \in {"text", "empty"} THEN Ret(direct.v, "primary_direct", "none", FALSE)
    ELSE IF direct.k = "raise" /\ ~Catches({"NoTranscriptFound", "TranscriptsDisabled"}, direct.v)
    THEN Thr(direct.v)
    ELSE IF listing.k = "raise" THEN Thr(listing.v)
    ELSE ListAndPick(listing.tracks)

\* the body of fetch_primary (one attempt): direct is the outcome of
\* get_transcript, listing that of list_transcripts (a Raise, or the tracks)
fetch_primary(direct, listing) ==
    IF direct.k = "text" THEN Ret(direct.v, "primary_direct", "none", FALSE)
    ELSE IF direct.k = "raise" /\ ~Catches({"NoTranscriptFound", "TranscriptsDisabled"}, direct.v)
    THEN Thr(direct.v)
    ELSE IF listing.k = "raise" THEN Thr(listing.v)
    ELSE ListAndPick(listing.tracks)


\* `import yt_dlp` failed
ImportFailed == [k |-> "import_failed", v |-> "none"]

\* what fetch_fallback_ytdlp returns: (text or None, {path, reason}); ran tells
\* whether yt-dlp was run
FbRet(t, p, r, ran) ==
    [kind |-> IF t = "none" THEN "none" ELSE "text", text |-> t, path |-> p,
     reason |-> r, ran |-> ran]
NoFb == [kind |-> "unset", text |-> "none", path |-> "none", reason |-> "none", ran |-> FALSE]

\* a fetch_fallback_ytdlp that does not look at USE_YTDLP
fetch_fallback_ytdlp_always(tool) ==
    IF tool.k = "import_failed" THEN FbRet("none", "yt_dlp", "import_failed", FALSE)
    ELSE IF tool.k = "raise" THEN FbRet("none", "yt_dlp", "extract_or_download", TRUE)
    ELSE IF tool.k = "text" THEN FbRet(tool.v, "yt_dlp", "none", TRUE)
    ELSE FbRet("none", "yt_dlp", "no_srt", TRUE)

\* fetch_fallback_ytdlp: tool is the outcome of importing and running yt-dlp and
\* of reading its SRT output (every exception is caught inside and turned into
\* a reason)
fetch_fallback_ytdlp(tool) ==
    IF ~USE_YTDLP THEN FbRet("none", "disabled", "none", FALSE)
    ELSE IF tool.k = "import_failed" THEN FbRet("none", "yt_dlp", "import_failed", FALSE)
    ELSE IF tool.k = "raise" THEN FbRet("none", "yt_dlp", "extract_or_download", TRUE)
    ELSE IF tool.k = "text" THEN FbRet(tool.v, "yt_dlp", "none", TRUE)
    ELSE FbRet("none", "yt_dlp", "no_srt", TRUE)

----------------------------------------------------------------------------
(* cache.py *)

\* a cache_get that counts a record of exactly the maximum age as expired
cache_get_strict(store, video_id, t) ==
    IF store[video_id] = NoRec THEN "none"
    ELSE IF t - store[video_id].ts >= MaxAge THEN "none"
    ELSE store[video_id].text

\* a cache_get without the age check
cache_get_no_ttl(store, video_id, t) ==
    IF store[video_id] = NoRec THEN "none" ELSE store[video_id].text

\* cache_get: "none" is Python's None
cache_get(store, video_id, t) ==
    IF store[video_id] = NoRec THEN "none"
    ELSE IF t - store[video_id].ts > MaxAge THEN "none"
    ELSE store[video_id].text

\* a cache_get that deletes the record it finds expired
store_after_get_evicting(store, video_id, t) ==
    IF store[video_id] # NoRec /\ t - store[video_id].ts > MaxAge
    THEN [store EXCEPT ![video_id] = NoRec]
    ELSE store

\* cache_get: the store after the call (cache_get only reads)
store_after_get(store, video_id, t) == store

\* a cache_set that writes no timestamp (cache_get then reads ts as 0)
cache_set_no_ts(store, video_id, text, t) == [store EXCEPT ![video_id] = Rec(0, text)]

\* cache_set: the whole record is replaced
cache_set(store, video_id, text, t) == [store EXCEPT ![video_id] = Rec(t, text)]

\* a cache_get without its try/except: a storage error leaves it as an exception
cache_read_unguarded(store, video_id, t, d) ==
    IF d = "broken" THEN "error" ELSE cache_get(store, video_id, t)

\* cache_get on a disk that may be broken: `except Exception: return None`;
\* _key(video_id) is computed before the try, and raises for None
cache_read(store, video_id, t, d) ==
    IF video_id = "none" THEN "error"
    ELSE IF d = "broken" THEN "none"
    ELSE cache_get(store, video_id, t)

\* cache_set on a disk that may be broken: `except Exception: pass`
cache_write(store, video_id, text, t, d) ==
    IF d = "broken" THEN store ELSE cache_set(store, video_id, text, t)

----------------------------------------------------------------------------
(* captions.py: get_captions, `if not vid` ("none": extract_video_id gave  *)
(* None or an empty identifier)                                             *)

\* a get_captions that goes on whatever extract_video_id gave
HasVideoIdAlways(v) == TRUE

HasVideoId(v) == v # "none"

----------------------------------------------------------------------------
(* captions.py: get_captions, the except clauses around fetch_primary *)

\* get_captions with its two except clauses in the opposite order
HandlePrimaryErrorSwapped(e) ==
    IF Catches({"NoTranscriptFound", "TranscriptsDisabled", "VideoUnavailable"}, e)
    THEN "unavailable"
    ELSE IF Catches({"TooManyRequests", "CouldNotRetrieveTranscript"}, e) THEN "fallback"
    ELSE "propagate"

HandlePrimaryError(e) ==
    IF Catches({"TooManyRequests", "CouldNotRetrieveTranscript"}, e) THEN "fallback"
    ELSE IF Catches({"NoTranscriptFound", "TranscriptsDisabled", "VideoUnavailable"}, e)
    THEN "unavailable"
    ELSE "propagate"

\* what get_captions hands back: kind is "text" (text, {path}), "fail"
\* (None, {reason}) or "raise" (an exception leaves get_captions)
Meta(p, l, g) == [path |-> p, lang |-> l, gen |-> g]
NoMeta == Meta("none", "none", FALSE)
NoRes == [kind |-> "none", text |-> "none", path |-> "none", reason |-> "none"]
ResText(t, p) == [kind |-> "text", text |-> t, path |-> p, reason |-> "none"]
ResFail(r) == [kind |-> "fail", text |-> "none", path |-> "none", reason |-> r]
ResRaise(e) == [kind |-> "raise", text |-> "none", path |-> "none", reason |-> e]

----------------------------------------------------------------------------
(* limiter.py *)

\* a gate that also admits a caller when no slot is free
CanAcquireOffByOne(g) == g >= 0

\* _fetch_gate.acquire() can return
CanAcquire(g) == g > 0

\* an __exit__ that releases only when the body ended without an exception
ReleaseUnlessRaised(g, res) == IF res.kind = "raise" THEN g ELSE g + 1

\* fetch_slot.__exit__(exc_type, exc, tb): the free count after it; res is how
\* the guarded body ended
ReleaseOnExit(g, res) == g + 1


----------------------------------------------------------------------------
(* What the upstream services may answer (the inputs of the model) *)

\* another text than t
Other(t) == CHOOSE u \in Texts : u # t

TrackLists(t) == {
    <<>>,
    <<Track("en", TRUE, FALSE, Ok(t), Empty)>>,
    <<Track("en", TRUE, FALSE, Ok(Other(t)), Empty), Track("en", FALSE, FALSE, Ok(t), Empty)>>,
    <<Track("en-US", FALSE, FALSE, Ok(Other(t)), Empty), Track("en", TRUE, FALSE, Ok(t), Empty)>>,
    <<Track("en", FALSE, FALSE, Raise("TooManyRequests"), Empty)>>,
    <<Track("fr", FALSE, TRUE, Empty, Ok(t))>>,
    <<Track("fr", TRUE, FALSE, Ok(t), Empty)>> }

DirectOutcomes(t) == {Ok(t), Empty} \cup {Raise(e) : e \in Errors}
ListOutcomes(t) == {ListRaise(e) : e \in Errors} \cup {Listed(ts) : ts \in TrackLists(t)}
ToolOutcomes(t) == {Ok(t), Empty, Raise("OtherError"), ImportFailed}

\* the text of the manual track in a preferred language that comes first in
\* the order of the candidates, when one attempt of fetch_primary gets as far
\* as the listing and that track's fetch gives a text; "none" otherwise
ManualPreferredTop(direct, listing) ==
    LET ts == listing.tracks
        pos(l) == IF InPrefer(l) THEN CHOOSE k \in 1..Len(prefer) : prefer[k] = l
                  ELSE Len(prefer) + 2
        tops == {i \in 1..Len(ts) :
                    /\ ~ts[i].gen /\ InPrefer(ts[i].lang) /\ ts[i].fetch.k = "text"
                    /\ \A j \in 1..Len(ts) :
                         j # i => \/ pos(ts[i].lang) < pos(ts[j].lang)
                                  \/ pos(ts[i].lang) = pos(ts[j].lang) /\ ts[j].gen}
    IN IF direct.k = "text" THEN "none"
       ELSE IF direct.k = "raise" /\ ~Catches({"NoTranscriptFound", "TranscriptsDisabled"}, direct.v)
       THEN "none"
       ELSE IF listing.k # "tracks" \/ tops = {} THEN "none"
       ELSE ts[CHOOSE i \in tops : TRUE].fetch.v

\* every result one attempt of fetch_primary can have, with the case of its
\* inputs
PrimaryCalls ==
    UNION {{[r |-> fetch_primary(direct, listing), top |-> ManualPreferredTop(direct, listing)] :
                direct \in DirectOutcomes(t), listing \in ListOutcomes(t)} : t \in Texts}

----------------------------------------------------------------------------
(* State of one process_video_job call *)

JobInit == [
    acquired  |-> 0,        \* _fetch_gate.acquire() calls that returned
    entered   |-> 0,        \* times the guarded body was entered
    releases  |-> 0,        \* _fetch_gate.release() calls
    attempt   |-> 0,        \* backoff.wrapper: attempt (0: fetch_primary not called)
    sleeps    |-> 0,        \* backoff.wrapper: time.sleep calls
    lastExc   |-> "none",   \* what the latest fetch_primary attempt raised
    nFallback |-> 0,        \* calls of fetch_fallback_ytdlp
    nGet      |-> 0,        \* calls of cache_get
    nSet      |-> 0,        \* calls of cache_set
    fb        |-> NoFb,     \* what fetch_fallback_ytdlp returned
    top       |-> "none",   \* latest attempt: text of the listing's top manual preferred track
    meta      |-> NoMeta,   \* the diagnostics returned with a text
    late      |-> FALSE,    \* time passed while queued at the gate or asleep (SpecDeadline)
    res       |-> NoRes ]   \* what get_captions handed back

\* the job's record once the caller has left `with fetch_slot()`: the counts of
\* the gate's calls and how the guarded body ended are kept
Left(j) == [JobInit EXCEPT !.acquired = j.acquired, !.entered = j.entered,
                           !.releases = j.releases,
                           !.res = [NoRes EXCEPT !.kind = j.res.kind]]

BodyPcs == {"cache_check", "primary", "sleep", "fallback", "exit"}

\* the process after its modules are imported, whatever the configuration
Start ==
    /\ gate = Capacity
    /\ leaked = 0
    /\ cache = [v \in Videos |-> NoRec]
    /\ now = 0
    /\ started = 0
    /\ pc = [c \in Callers |-> "idle"]
    /\ vid = [c \in Callers |-> "v1"]
    /\ job = [c \in Callers |-> JobInit]
    /\ fetched = [v \in Videos |-> NoRec]
    /\ bo = [pc |-> "off"]
    /\ pf = [op |-> "off"]
    /\ disk = "ok"
    /\ file = [on |-> FALSE]

\* the default configuration: ENABLE_YTDLP_FALLBACK defaults to "1"
Init == Start /\ USE_YTDLP = TRUE

\* any configuration: ENABLE_YTDLP_FALLBACK set to "1" or to anything else
InitConfig == Start /\ USE_YTDLP \in BOOLEAN

\* process_video_job up to `with fetch_slot():` (the identifier is extracted)
StartJob(c, v) ==
    /\ pc[c] = "idle"
    /\ started < MaxJobs
    /\ started' = started + 1
    /\ pc' = [pc EXCEPT ![c] = "acquire"]
    /\ vid' = [vid EXCEPT ![c] = v]
    /\ job' = [job EXCEPT ![c] = JobInit]
    /\ UNCHANGED <<gate, leaked, cache, now, fetched, bo, USE_YTDLP, pf, disk, file>>

\* fetch_slot.__enter__: _fetch_gate.acquire()
Acquire(c) ==
    /\ pc[c] = "acquire"
    /\ CanAcquire(gate)
    /\ gate' = gate - 1
    /\ pc' = [pc EXCEPT ![c] = "settle"]
    /\ job' = [job EXCEPT ![c].acquired = 1]
    /\ UNCHANGED <<leaked, cache, now, started, vid, fetched, bo, USE_YTDLP, pf, disk, file>>

\* fetch_slot.__enter__: time.sleep returns, the guarded body starts
Settle(c) ==
    /\ pc[c] = "settle"
    /\ pc' = [pc EXCEPT ![c] = "cache_check"]
    /\ job' = [job EXCEPT ![c].entered = 1]
    /\ UNCHANGED <<gate, leaked, cache, now, started, vid, fetched, bo, USE_YTDLP, pf, disk, file>>

\* fetch_slot.__enter__: an exception is delivered during time.sleep; __enter__
\* raises, so the with statement never calls __exit__
CancelSettle(c) ==
    /\ pc[c] = "settle"
    /\ leaked' = leaked + 1
    /\ pc' = [pc EXCEPT ![c] = "idle"]
    /\ UNCHANGED <<gate, cache, now, started, vid, job, fetched, bo, USE_YTDLP, pf, disk, file>>

\* get_captions: "0) cache"
CacheCheck(c) ==
    /\ pc[c] = "cache_check"
    /\ IF ~HasVideoId(vid[c])
       THEN /\ job' = [job EXCEPT ![c].res = ResFail("no_video_id")]
            /\ pc' = [pc EXCEPT ![c] = "exit"]
            /\ cache' = cache
       ELSE LET cached == cache_read(cache, vid[c], now, disk)
            IN /\ IF cached = "error"     \* an exception of cache_get leaves get_captions
                  THEN /\ job' = [job EXCEPT ![c].res = ResRaise("OtherError"),
                                             ![c].nGet = @ + 1]
                       /\ pc' = [pc EXCEPT ![c] = "exit"]
                  ELSE IF cached # "none"
                  THEN /\ job' = [job EXCEPT ![c].res = ResText(cached, "cache"),
                                             ![c].meta = Meta("cache", "none", FALSE),
                                             ![c].nGet = @ + 1]
                       /\ pc' = [pc EXCEPT ![c] = "exit"]
                  ELSE /\ job' = [job EXCEPT ![c].attempt = 1, ![c].nGet = @ + 1]
                       /\ pc' = [pc EXCEPT ![c] = "primary"]
               /\ cache' = store_after_get(cache, vid[c], now)
    /\ UNCHANGED <<gate, leaked, now, started, vid, fetched, bo, USE_YTDLP, pf, disk, file>>

\* get_captions: a text came back from a source: cache_set and return
\* (j: the caller's record with the source's call noted)
StoreAndReturn(c, j, text, meta) ==
    /\ cache' = cache_write(cache, vid[c], text, now, disk)
    /\ fetched' = [fetched EXCEPT ![vid[c]] = Rec(now, text)]
    /\ job' = [job EXCEPT ![c] = [j EXCEPT !.res = ResText(text, meta.path),
                                           !.meta = meta,
                                           !.nSet = @ + 1]]
    /\ pc' = [pc EXCEPT ![c] = "exit"]

\* get_captions: "1) primary with retries/backoff": one attempt of the wrapper
Primary(c) ==
    /\ pc[c] = "primary"
    /\ \E call \in PrimaryCalls :
         LET r == call.r IN
         IF r.kind = "return"
         THEN StoreAndReturn(c, [job[c] EXCEPT !.top = call.top], r.text,
                             Meta(r.path, r.lang, r.gen))
         ELSE LET next == OnFailure(on_exceptions, PrimaryTries, job[c].attempt, r.exc)
                  how == HandlePrimaryError(r.exc)
              IN /\ job' = [job EXCEPT ![c].lastExc = r.exc,
                                       ![c].top = call.top,
                                       ![c].res = IF next = "sleep" \/ how = "fallback" THEN NoRes
                                                  ELSE IF how = "unavailable"
                                                  THEN ResFail("unavailable")
                                                  ELSE ResRaise(r.exc)]
                 /\ pc' = [pc EXCEPT ![c] = IF next = "sleep" THEN "sleep"
                                            ELSE IF how = "fallback" THEN "fallback"
                                            ELSE "exit"]
                 /\ UNCHANGED <<cache, fetched>>
    /\ UNCHANGED <<gate, leaked, now, started, vid, bo, USE_YTDLP, pf, disk, file>>

\* backoff.wrapper: time.sleep(sleep_for), then the next attempt
Sleep(c) ==
    /\ pc[c] = "sleep"
    /\ job' = [job EXCEPT ![c].sleeps = @ + 1, ![c].attempt = @ + 1]
    /\ pc' = [pc EXCEPT ![c] = "primary"]
    /\ UNCHANGED <<gate, leaked, cache, now, started, vid, fetched, bo, USE_YTDLP, pf, disk, file>>

\* get_captions: "2) fallback via yt-dlp"
Fallback(c) ==
    /\ pc[c] = "fallback"
    /\ \E t \in Texts : \E tool \in ToolOutcomes(t) :
         LET r == fetch_fallback_ytdlp(tool) IN
         IF r.kind = "text"
         THEN StoreAndReturn(c, [job[c] EXCEPT !.nFallback = @ + 1, !.fb = r], r.text,
                             Meta(r.path, "none", FALSE))
         ELSE /\ job' = [job EXCEPT ![c].res = ResFail("rate_limited_or_blocked"),
                                    ![c].nFallback = @ + 1,
                                    ![c].fb = r]
              /\ pc' = [pc EXCEPT ![c] = "exit"]
              /\ UNCHANGED <<cache, fetched>>
    /\ UNCHANGED <<gate, leaked, now, started, vid, bo, USE_YTDLP, pf, disk, file>>

\* the guarded body has ended: fetch_slot.__exit__, and the rest of
\* process_video_job
Exit(c) ==
    /\ pc[c] = "exit"
    /\ gate' = ReleaseOnExit(gate, job[c].res)
    /\ job' = [job EXCEPT ![c] = Left([job[c] EXCEPT !.releases = @ + (gate' - gate)])]
    /\ pc' = [pc EXCEPT ![c] = "idle"]
    /\ UNCHANGED <<leaked, cache, now, started, vid, fetched, bo, USE_YTDLP, pf, disk, file>>

\* time passes
Tick ==
    /\ now < MaxTicks * TickSeconds
    /\ now' = now + TickSeconds
    /\ UNCHANGED <<gate, leaked, cache, started, pc, vid, job, fetched, bo, USE_YTDLP, pf, disk, file>>

Next ==
    \/ \E c \in Callers : \E v \in Videos : StartJob(c, v)
    \/ \E c \in Callers : Acquire(c)
    \/ \E c \in Callers : Settle(c)
    \/ \E c \in Callers : CacheCheck(c)
    \/ \E c \in Callers : Primary(c)
    \/ \E c \in Callers : Sleep(c)
    \/ \E c \in Callers : Fallback(c)
    \/ \E c \in Callers : Exit(c)
    \/ Tick

Spec == Init /\ [][Next]_vars

\* the same program with exceptions delivered to callers inside __enter__
NextCancel == Next \/ \E c \in Callers : CancelSettle(c)

SpecCancel == Init /\ [][NextCancel]_vars

\* time passes; the callers that are queued in _fetch_gate.acquire() or inside
\* backoff's time.sleep stay where they are (no call takes a timeout)
TickWaiting ==
    /\ now < MaxTicks * TickSeconds
    /\ now' = now + TickSeconds
    /\ job' = [c \in Callers |->
                 IF pc[c] \in {"acquire", "sleep"} THEN [job[c] EXCEPT !.late = TRUE]
                 ELSE job[c]]
    /\ UNCHANGED <<gate, leaked, cache, started, pc, vid, fetched, bo, USE_YTDLP, pf, disk, file>>

CallerStep ==
    \/ \E c \in Callers : \E v \in Videos : StartJob(c, v)
    \/ \E c \in Callers : Acquire(c)
    \/ \E c \in Callers : Settle(c)
    \/ \E c \in Callers : CacheCheck(c)
    \/ \E c \in Callers : Primary(c)
    \/ \E c \in Callers : Sleep(c)
    \/ \E c \in Callers : Fallback(c)
    \/ \E c \in Callers : Exit(c)

NextDeadline == CallerStep \/ TickWaiting

\* the same program, noting which callers were waiting while time passed
SpecDeadline == Init /\ [][NextDeadline]_vars

\* the storage under CACHE_DIR starts to fail (a full or read-only disk) / works again
BreakDisk ==
    /\ disk = "ok" /\ disk' = "broken"
    /\ UNCHANGED <<gate, leaked, cache, now, started, pc, vid, job, fetched, bo, USE_YTDLP,
                   pf, file>>
RepairDisk ==
    /\ disk = "broken" /\ disk' = "ok"
    /\ UNCHANGED <<gate, leaked, cache, now, started, pc, vid, job, fetched, bo, USE_YTDLP,
                   pf, file>>

\* one worker thread running its jobs one after the other
Worker == "c1"
WorkerStep ==
    \/ \E v \in Videos : StartJob(Worker, v)
    \/ Acquire(Worker)
    \/ Settle(Worker)
    \/ CacheCheck(Worker)
    \/ Primary(Worker)
    \/ Sleep(Worker)
    \/ Fallback(Worker)
    \/ Exit(Worker)
    \/ Tick

NextFaulty == WorkerStep \/ BreakDisk \/ RepairDisk

\* one worker of the program on a cache directory whose storage fails at times
SpecFaulty == Init /\ [][NextFaulty]_vars

\* process_video_job for a URL the application's extract_video_id finds an
\* identifier in and the extract_video_id of captions.py does not
StartJobNoId(c) ==
    /\ pc[c] = "idle"
    /\ started < MaxJobs
    /\ started' = started + 1
    /\ pc' = [pc EXCEPT ![c] = "acquire"]
    /\ vid' = [vid EXCEPT ![c] = "none"]
    /\ job' = [job EXCEPT ![c] = JobInit]
    /\ UNCHANGED <<gate, leaked, cache, now, fetched, bo, USE_YTDLP, pf, disk, file>>

NextNoId == Next \/ \E c \in Callers : StartJobNoId(c)

\* the same program, some of its URLs being such ones
SpecNoId == Init /\ [][NextNoId]_vars

\* process_video_job is called again and again, without end
StartNext(c, v) ==
    /\ pc[c] = "idle"
    /\ pc' = [pc EXCEPT ![c] = "acquire"]
    /\ vid' = [vid EXCEPT ![c] = v]
    /\ job' = [job EXCEPT ![c] = JobInit]
    /\ UNCHANGED <<gate, leaked, cache, now, started, fetched, bo, USE_YTDLP, pf, disk, file>>

\* the steps of caller c from the return of _fetch_gate.acquire() to the
\* return of fetch_slot.__exit__
BlockStep(c) ==
    Settle(c) \/ CacheCheck(c) \/ Primary(c) \/ Sleep(c) \/ Fallback(c) \/ Exit(c)

NextLive ==
    \/ \E c \in Callers : \E v \in Videos : StartNext(c, v)
    \/ \E c \in Callers : Acquire(c)
    \/ \E c \in Callers : BlockStep(c)

\* the same program with callers that never stop coming: every sleep and every
\* upstream call of a caller in the block returns, and a caller queued at the
\* semaphore is not overtaken for ever
SpecLive ==
    /\ Init
    /\ [][NextLive]_vars
    /\ \A c \in Callers : WF_vars(BlockStep(c))
    /\ \A c \in Callers : SF_vars(Acquire(c))

\* the same program under either setting of ENABLE_YTDLP_FALLBACK
SpecConfig == InitConfig /\ [][Next]_vars


----------------------------------------------------------------------------
(* One call of a backoff-wrapped operation, for any tries and any sequence  *)
(* of outcomes of the operation                                              *)

BackoffConfigs == {
    [base |-> DefaultBase, cap |-> DefaultCap, jitter |-> DefaultJitter],
    [base |-> PrimaryBase, cap |-> PrimaryCap, jitter |-> PrimaryJitter] }

OnExceptionSets == { {"TooManyRequests"}, on_exceptions }

OpResults == {"r1", "r2"}

BoInit ==
    /\ gate = Capacity
    /\ leaked = 0
    /\ cache = [v \in Videos |-> NoRec]
    /\ now = 0
    /\ started = 0
    /\ pc = [c \in Callers |-> "idle"]
    /\ vid = [c \in Callers |-> "v1"]
    /\ job = [c \in Callers |-> JobInit]
    /\ fetched = [v \in Videos |-> NoRec]
    /\ USE_YTDLP = TRUE
    /\ pf = [op |-> "off"]
    /\ disk = "ok"
    /\ file = [on |-> FALSE]
    /\ \E cfg \in BackoffConfigs : \E on \in OnExceptionSets : \E n \in 1..MaxTries :
         bo = [pc      |-> "call",     \* call: about to invoke fn; sleep; returned; raised
               on      |-> on,
               tries   |-> n,
               cfg     |-> cfg,
               attempt |-> 1,          \* the loop variable
               calls   |-> 0,          \* invocations of fn
               nsleeps |-> 0,          \* time.sleep calls
               delays  |-> <<>>,       \* the pre-jitter part of each sleep_for
               slept   |-> -1,         \* the latest sleep_for
               lastErr |-> "none",     \* what the latest invocation raised
               lastRes |-> "none",     \* what the latest invocation returned
               out     |-> "none" ]    \* what the wrapper returned or raised

\* wrapper: `return fn(*args, **kwargs)` inside the try, and the except branch
BoCall ==
    /\ bo.pc = "call"
    /\ \/ \E r \in OpResults :
            bo' = [bo EXCEPT !.calls = @ + 1, !.lastRes = r, !.lastErr = "none",
                             !.out = r, !.pc = "returned"]
       \/ \E e \in Errors :
            LET next == OnFailure(bo.on, bo.tries, bo.attempt, e) IN
            bo' = [bo EXCEPT !.calls = @ + 1, !.lastErr = e, !.lastRes = "none",
                             !.out = IF next = "sleep" THEN "none" ELSE e,
                             !.pc = IF next = "sleep" THEN "sleep" ELSE "raised"]
    /\ UNCHANGED <<gate, leaked, cache, now, started, pc, vid, job, fetched, USE_YTDLP, pf, disk, file>>

\* wrapper: sleep_for = ...; time.sleep(sleep_for); next iteration
BoSleep ==
    /\ bo.pc = "sleep"
    /\ \E j \in 0..bo.cfg.jitter :
         bo' = [bo EXCEPT !.nsleeps = @ + 1,
                          !.delays = Append(@, PreJitter(bo.cfg.base, bo.cfg.cap, bo.attempt)),
                          !.slept = SleepFor(bo.cfg.base, bo.cfg.cap, bo.attempt, j),
                          !.attempt = @ + 1,
                          !.pc = "call"]
    /\ UNCHANGED <<gate, leaked, cache, now, started, pc, vid, job, fetched, USE_YTDLP, pf, disk, file>>

BoNext == BoCall \/ BoSleep

SpecBackoff == BoInit /\ [][BoNext]_vars


----------------------------------------------------------------------------
(* Pure functions, each called once on an argument drawn from a bounded set *)

\* no job is running; the variables of the pipeline stay as they are
Quiet ==
    /\ gate = Capacity
    /\ leaked = 0
    /\ cache = [v \in Videos |-> NoRec]
    /\ now = 0
    /\ started = 0
    /\ pc = [c \in Callers |-> "idle"]
    /\ vid = [c \in Callers |-> "v1"]
    /\ job = [c \in Callers |-> JobInit]
    /\ fetched = [v \in Videos |-> NoRec]
    /\ bo = [pc |-> "off"]
    /\ USE_YTDLP = TRUE
    /\ disk = "ok"

\* fetch_primary: cands = sorted(list(tlist), key=rank)
RankLangs == {"en", "en-US", "fr", "de"}
RankTracks == {Track(l, g, FALSE, Empty, Empty) : l \in RankLangs, g \in BOOLEAN}

RankInit ==
    /\ Quiet
    /\ file = [on |-> FALSE]
    /\ \E n \in 0..MaxTracks : \E ts \in [1..n -> RankTracks] :
         pf = [op |-> "rank", arg |-> ts, out |-> <<>>, done |-> FALSE]

RankCall ==
    /\ pf.op = "rank" /\ ~pf.done
    /\ pf' = [pf EXCEPT !.out = SortedByRank(pf.arg), !.done = TRUE]
    /\ UNCHANGED <<gate, leaked, cache, now, started, pc, vid, job, fetched, bo, USE_YTDLP, disk, file>>

SpecRank == RankInit /\ [][RankCall]_vars

\* one attempt of fetch_primary on any direct outcome and any listing of up
\* to MaxListed tracks; the i-th track's fetch() serves FetchText[i] and its
\* translate().fetch() serves TransText[i], when they serve a text
FetchText == <<"f1", "f2", "f3", "f4">>
TransText == <<"x1", "x2", "x3", "x4">>
CallKinds == {"text", "empty", "raise"}
Outcome(kind, text) ==
    IF kind = "text" THEN Ok(text)
    ELSE IF kind = "raise" THEN Raise("TooManyRequests")
    ELSE Empty
TrackShapes ==
    {[lang |-> l, gen |-> g, fk |-> f, tk |-> x] :
        l \in {"en", "fr"}, g \in BOOLEAN, f \in CallKinds, x \in CallKinds \cup {"no"}}
ShapedTracks(sh) ==
    [i \in 1..Len(sh) |->
        Track(sh[i].lang, sh[i].gen, sh[i].tk # "no",
              Outcome(sh[i].fk, FetchText[i]),
              IF sh[i].tk = "no" THEN Empty ELSE Outcome(sh[i].tk, TransText[i]))]
PrimaryDirects == {Ok("d1"), Empty, Raise("NoTranscriptFound"), Raise("TooManyRequests")}

PrimaryInit ==
    /\ Quiet
    /\ file = [on |-> FALSE]
    /\ \E d \in PrimaryDirects :
         \/ \E e \in {"TooManyRequests", "OtherError"} :
               pf = [op |-> "primary", direct |-> d, listing |-> ListRaise(e),
                     out |-> Fall, done |-> FALSE]
         \/ \E n \in 0..MaxListed : \E sh \in [1..n -> TrackShapes] :
               pf = [op |-> "primary", direct |-> d, listing |-> Listed(ShapedTracks(sh)),
                     out |-> Fall, done |-> FALSE]

PrimaryCall ==
    /\ pf.op = "primary" /\ ~pf.done
    /\ pf' = [pf EXCEPT !.out = fetch_primary(pf.direct, pf.listing), !.done = TRUE]
    /\ UNCHANGED <<gate, leaked, cache, now, started, pc, vid, job, fetched, bo, USE_YTDLP, disk, file>>

SpecPrimary == PrimaryInit /\ [][PrimaryCall]_vars

\* captions.extract_video_id.  A URL is what urlparse makes of it: the host
\* (netloc, lower case), the path as its segments between slashes, and the
\* first value of the query parameter v (the empty string when there is none:
\* parse_qs drops blank values).  A string is a sequence of characters.
IdChars == {"d", "Q", "w", "4", "9", "W", "g", "X", "c", "a", "b", "Y", "_", "-"}
    \* the characters of [0-9A-Za-z_-] that the URLs below use

Id11 == <<"d", "Q", "w", "4", "w", "9", "W", "g", "X", "c", "Q">>
ShortTok == <<"a", "b", "c">>
LongTok == Id11 \o <<"X", "Y">>
BadTok == <<"d", "Q", "!", "4", "w", "9", "W", "g", "X", "c", "Q">>
Tokens == {Id11, ShortTok, LongTok, BadTok}

KwEmbed == <<"e", "m", "b", "e", "d">>
KwV == <<"v">>
KwShorts == <<"s", "h", "o", "r", "t", "s">>
KwWatch == <<"w", "a", "t", "c", "h">>
ShapeKws == {KwEmbed, KwV, KwShorts}

Hosts == {"www.youtube.com", "youtu.be", "vimeo.com", ""}
Paths == {<<>>, <<KwWatch>>, <<KwWatch, Id11>>}
            \cup {<<t>> : t \in Tokens}
            \cup {<<k, t>> : k \in ShapeKws, t \in Tokens}
Urls == {[host |-> h, path |-> q, v |-> x] : h \in Hosts, q \in Paths, x \in Tokens \cup {<<>>}}

\* Python's None, and a str
NoneVal == [some |-> FALSE, s |-> <<>>]
Some(x) == [some |-> TRUE, s |-> x]

\* s[:n]
Prefix(x, n) == SubSeq(x, 1, Min(n, Len(x)))
\* "youtu.be" in host
HasYoutuBe(h) == h \in {"youtu.be", "www.youtu.be"}
\* [0-9A-Za-z_-]{11} matches at the start of x
Starts11(x) == Len(x) >= 11 /\ \A i \in 1..11 : x[i] \in IdChars

extract_video_id(u) ==
    IF u.v # <<>> THEN Some(Prefix(u.v, 11))
    ELSE IF HasYoutuBe(u.host)
    THEN Some(Prefix(IF u.path = <<>> THEN <<>> ELSE u.path[1], 11))
    ELSE LET hits == {i \in 1..(Len(u.path) - 1) :
                        u.path[i] \in ShapeKws /\ Starts11(u.path[i + 1])}
         IN IF hits = {} THEN NoneVal
            ELSE Some(Prefix(u.path[(CHOOSE i \in hits : \A j \in hits : i <= j) + 1], 11))

ExtractInit ==
    /\ Quiet
    /\ file = [on |-> FALSE]
    /\ \E u \in Urls : pf = [op |-> "extract", arg |-> u, out |-> NoneVal, done |-> FALSE]

ExtractCall ==
    /\ pf.op = "extract" /\ ~pf.done
    /\ pf' = [pf EXCEPT !.out = extract_video_id(pf.arg), !.done = TRUE]
    /\ UNCHANGED <<gate, leaked, cache, now, started, pc, vid, job, fetched, bo, USE_YTDLP, disk, file>>

SpecExtract == ExtractInit /\ [][ExtractCall]_vars

----------------------------------------------------------------------------
(* cache.py at the level of the file.  cache_set opens the record's file with *)
(* mode "w", which empties it, and json.dump hands the record to the file     *)
(* object, which writes one buffer-full per write() call and the rest when    *)
(* the file is closed: the record of a long transcript reaches the file in    *)
(* several chunks.  cache_get reads the file and parses it.                   *)

Writers == {"w1", "w2"}
FileTexts == {"A", "B"}

\* the part-th of the n chunks of the record that holds text t
Chunk(t, part, n) == [text |-> t, part |-> part, last |-> part = n]
\* bytes nobody wrote, below a write made past the end of the file
Hole == [text |-> "hole", part |-> 0, last |-> FALSE]

\* write(chunk) at offset off
PutChunk(content, off, ch) ==
    IF off <= Len(content) THEN [content EXCEPT ![off] = ch]
    ELSE content \o [i \in 1..(off - Len(content) - 1) |-> Hole] \o <<ch>>

\* json.load succeeds: the chunks make up one JSON document
Parses(content) ==
    /\ Len(content) >= 1
    /\ \A i \in 1..Len(content) :
         content[i].part = i /\ content[i].last = (i = Len(content))

\* cache_get on the file: the text of the document, chunk by chunk, or <<>>
\* for None (no file, or json.load raised); the record is taken to be fresh
file_get(exists, content) ==
    IF ~exists THEN <<>>
    ELSE IF ~Parses(content) THEN <<>>
    ELSE [i \in 1..Len(content) |-> content[i].text]

WriterIdle == [pc |-> "idle", off |-> 0, text |-> "none", n |-> 0]

FileInit ==
    /\ Quiet
    /\ pf = [op |-> "off"]
    /\ file = [on |-> TRUE, exists |-> FALSE, content |-> <<>>,
               w |-> [x \in Writers |-> WriterIdle], got |-> <<>>]

\* cache_set: open(_key(video_id), "w")
FileOpen(x, t, n) ==
    /\ file.on /\ file.w[x].pc = "idle"
    /\ file' = [file EXCEPT !.exists = TRUE, !.content = <<>>,
                            !.w[x] = [pc |-> "open", off |-> 1, text |-> t, n |-> n]]
    /\ UNCHANGED <<gate, leaked, cache, now, started, pc, vid, job, fetched, bo, USE_YTDLP,
                   pf, disk>>

\* cache_set: json.dump, one write() of the file object
FileWrite(x) ==
    /\ file.on /\ file.w[x].pc = "open" /\ file.w[x].off <= file.w[x].n
    /\ file' = [file EXCEPT
                   !.content = PutChunk(@, file.w[x].off,
                                        Chunk(file.w[x].text, file.w[x].off, file.w[x].n)),
                   !.w[x].off = @ + 1]
    /\ UNCHANGED <<gate, leaked, cache, now, started, pc, vid, job, fetched, bo, USE_YTDLP,
                   pf, disk>>

\* cache_set: the with block ends, everything is written
FileClose(x) ==
    /\ file.on /\ file.w[x].pc = "open" /\ file.w[x].off > file.w[x].n
    /\ file' = [file EXCEPT !.w[x] = WriterIdle]
    /\ UNCHANGED <<gate, leaked, cache, now, started, pc, vid, job, fetched, bo, USE_YTDLP,
                   pf, disk>>

\* cache_get by any other caller
FileGet ==
    /\ file.on
    /\ file' = [file EXCEPT !.got = file_get(file.exists, file.content)]
    /\ UNCHANGED <<gate, leaked, cache, now, started, pc, vid, job, fetched, bo, USE_YTDLP,
                   pf, disk>>

FileNext ==
    \/ \E x \in Writers : \E t \in FileTexts : \E n \in 1..MaxChunks : FileOpen(x, t, n)
    \/ \E x \in Writers : FileWrite(x)
    \/ \E x \in Writers : FileClose(x)
    \/ FileGet

SpecFile == FileInit /\ [][FileNext]_vars

----------------------------------------------------------------------------
(* get_captions: one backoff(fetch_primary)(vid) call, attempt by attempt, *)
(* with the upstream failing at one step or another of the cascade          *)

\* the failures the upstream answers a throttled or blocked client with
Throttled == {"TooManyRequests", "CouldNotRetrieveTranscript"}

RetryDirects == {Ok("d1"), Empty, Raise("NoTranscriptFound")} \cup {Raise(e) : e \in Throttled}

\* track lists that fail in the same-language pass, in the translate pass, in
\* the any-track pass, or not at all
RetryTrackLists == {
    <<>>,
    <<Track("en", FALSE, FALSE, Ok("f1"), Empty)>>,
    <<Track("en", FALSE, FALSE, Raise("TooManyRequests"), Empty)>>,
    <<Track("en", TRUE, FALSE, Raise("CouldNotRetrieveTranscript"), Empty),
      Track("en", FALSE, FALSE, Ok("f1"), Empty)>>,
    <<Track("fr", FALSE, TRUE, Empty, Raise("TooManyRequests"))>>,
    <<Track("fr", FALSE, TRUE, Raise("TooManyRequests"), Raise("TooManyRequests"))>>,
    <<Track("fr", FALSE, TRUE, Empty, Raise("CouldNotRetrieveTranscript")),
      Track("de", TRUE, TRUE, Empty, Ok("x2"))>>,
    <<Track("fr", FALSE, FALSE, Raise("TooManyRequests"), Empty)>>,
    <<Track("fr", FALSE, FALSE, Raise("TooManyRequests"), Empty),
      Track("de", TRUE, FALSE, Raise("CouldNotRetrieveTranscript"), Empty)>>,
    <<Track("fr", FALSE, FALSE, Raise("TooManyRequests"), Empty),
      Track("de", TRUE, FALSE, Ok("f2"), Empty)>> }

RetryListings == {ListRaise(e) : e \in Throttled} \cup {Listed(ts) : ts \in RetryTrackLists}

RetryInit ==
    /\ Quiet
    /\ file = [on |-> FALSE]
    /\ pf = [op |-> "retry", attempt |-> 1, stage |-> "call",
             direct |-> Empty, listing |-> Listed(<<>>), out |-> Fall]

\* one attempt of fetch_primary inside backoff.wrapper, and what the wrapper
\* and get_captions' except clauses make of its failure
RetryAttempt ==
    /\ pf.op = "retry" /\ pf.stage = "call"
    /\ \E direct \in RetryDirects : \E listing \in RetryListings :
         LET r == fetch_primary(direct, listing)
             next == OnFailure(on_exceptions, PrimaryTries, pf.attempt, r.exc)
             how == HandlePrimaryError(r.exc)
         IN pf' = [pf EXCEPT !.direct = direct, !.listing = listing, !.out = r,
                             !.stage = IF r.kind = "return" THEN "text"
                                       ELSE IF next = "sleep" THEN "sleep"
                                       ELSE IF how = "fallback" THEN "fallback"
                                       ELSE IF how = "unavailable" THEN "unavailable"
                                       ELSE "raise"]
    /\ UNCHANGED <<gate, leaked, cache, now, started, pc, vid, job, fetched, bo, USE_YTDLP,
                   disk, file>>

\* backoff.wrapper: time.sleep(sleep_for), attempt += 1
RetrySleep ==
    /\ pf.op = "retry" /\ pf.stage = "sleep"
    /\ pf' = [pf EXCEPT !.stage = "call", !.attempt = @ + 1]
    /\ UNCHANGED <<gate, leaked, cache, now, started, pc, vid, job, fetched, bo, USE_YTDLP,
                   disk, file>>

RetryNext == RetryAttempt \/ RetrySleep

SpecRetry == RetryInit /\ [][RetryNext]_vars

----------------------------------------------------------------------------
(* Subtitle stripping: captions.py (fetch_fallback_ytdlp, "read SRT") and   *)
(* cloud-run-worker/captions.py (get_captions_text, "Convert VTT to text"). *)
(* A line is a sequence of characters, a text one too ("\n" between lines). *)

Whitespace == {" ", "\n"}
Digits == {"1", "2"}

\* str.strip()
RECURSIVE LStrip(_)
LStrip(s) ==
    IF s = <<>> THEN <<>>
    ELSE IF s[1] \in Whitespace THEN LStrip(Tail(s))
    ELSE s
RECURSIVE RStrip(_)
RStrip(s) ==
    IF s = <<>> THEN <<>>
    ELSE IF s[Len(s)] \in Whitespace THEN RStrip(SubSeq(s, 1, Len(s) - 1))
    ELSE s
StrStrip(s) == RStrip(LStrip(s))

\* str.isdigit()
IsDigit(s) == s # <<>> /\ \A i \in 1..Len(s) : s[i] \in Digits

\* "-->" in line
HasArrow(s) ==
    \E i \in 1..(Len(s) - 2) : s[i] = "-" /\ s[i + 1] = "-" /\ s[i + 2] = ">"

\* "\n".join(lines)
RECURSIVE Join(_)
Join(lines) ==
    IF lines = <<>> THEN <<>>
    ELSE IF Len(lines) = 1 THEN lines[1]
    ELSE lines[1] \o <<"\n">> \o Join(Tail(lines))

\* captions.py, the loop over the lines of one .srt file: each line is
\* stripped, then dropped or appended
RECURSIVE srt_lines(_)
srt_lines(input) ==
    IF input = <<>> THEN <<>>
    ELSE LET line == StrStrip(input[1]) IN
         IF line = <<>> THEN srt_lines(Tail(input))
         ELSE IF IsDigit(line) THEN srt_lines(Tail(input))
         ELSE IF HasArrow(line) THEN srt_lines(Tail(input))
         ELSE <<line>> \o srt_lines(Tail(input))

\* an srt_text that hands back the empty text as it is
srt_text_empty(input) == Some(StrStrip(Join(srt_lines(input))))

\* captions.py: text = "\n".join(lines).strip() or None
srt_text(input) ==
    LET text == StrStrip(Join(srt_lines(input)))
    IN IF text = <<>> THEN NoneVal ELSE Some(text)

\* cloud-run-worker/captions.py, the loop over vtt.splitlines(): the test is
\* made on the stripped line, the line is appended as it is
RECURSIVE vtt_lines(_)
vtt_lines(input) ==
    IF input = <<>> THEN <<>>
    ELSE LET line == input[1] IN
         IF StrStrip(line) = <<>> \/ HasArrow(line) \/ IsDigit(StrStrip(line))
         THEN vtt_lines(Tail(input))
         ELSE <<line>> \o vtt_lines(Tail(input))

\* cloud-run-worker/captions.py: transcript = "\n".join(lines), returned if
\* transcript.strip() is not empty (NoneVal: get_captions_text goes on to raise)
vtt_text(input) ==
    LET transcript == Join(vtt_lines(input))
    IN IF StrStrip(transcript) # <<>> THEN Some(transcript) ELSE NoneVal

\* the lines of the subtitle files tried
SubLines == {
    <<>>,
    <<" ">>,
    <<"1">>,
    <<"1", "2">>,
    <<" ", "2", " ">>,
    <<"a">>,
    <<"b", " ">>,
    <<" ", "a", "b">>,
    <<"a", "1">>,
    <<"1", "-", "2">>,
    <<"-", "-", ">">>,
    <<"1", " ", "-", "-", ">", " ", "2">>,
    <<"a", "-", "-", ">">>,
    <<"-", ">", "a">> }

RECURSIVE SubFiles(_)
SubFiles(n) ==
    IF n = 0 THEN {<<>>}
    ELSE SubFiles(n - 1) \cup {Append(f, l) : f \in {g \in SubFiles(n - 1) : Len(g) = n - 1},
                                               l \in SubLines}

StripInit ==
    /\ Quiet
    /\ file = [on |-> FALSE]
    /\ \E input \in SubFiles(MaxLines) : \E which \in {"srt", "vtt"} :
         pf = [op |-> "strip", which |-> which, input |-> input, out |-> NoneVal,
               done |-> FALSE]

StripCall ==
    /\ pf.op = "strip" /\ ~pf.done
    /\ pf' = [pf EXCEPT !.out = IF pf.which = "srt" THEN srt_text(pf.input)
                                ELSE vtt_text(pf.input),
                        !.done = TRUE]
    /\ UNCHANGED <<gate, leaked, cache, now, started, pc, vid, job, fetched, bo, USE_YTDLP,
                   disk, file>>

SpecStrip == StripInit /\ [][StripCall]_vars

----------------------------------------------------------------------------
(* cloud-run-worker/captions.py: _captions_via_ytdlp, the yt-dlp strategies *)
(* tried one after the other, under tenacity's retry, and the yt-dlp branch *)
(* of get_captions_text                                                     *)

strategies == <<"sub_langs_vtt", "sub_formats", "from_info">>
YtdlpAttempts == 3      \* stop_after_attempt(3)

\* what one strategy's yt-dlp run comes to: a subtitle content was read (its
\* lines), the output named no usable track, the run timed out, or it failed
Found(content) == [k |-> "found", v |-> content]
NoTracks == [k |-> "no_tracks", v |-> <<>>]
TimedOut == [k |-> "timeout", v |-> <<>>]
RunFailed == [k |-> "failed", v |-> <<>>]

SubContents == {
    <<<<"1">>, <<"1", " ", "-", "-", ">", " ", "2">>, <<"a">>>>,
    <<<<"a", "b">>>>,
    <<<<"1">>, <<"1", " ", "-", "-", ">", " ", "2">>>>,
    <<>> }
StrategyOutcomes == {Found(c) : c \in SubContents} \cup {NoTracks, TimedOut, RunFailed}

\* the for loop over the strategies: the number of the strategy whose content
\* is returned, 0 when the loop ends and RuntimeError is raised
RECURSIVE FirstFound(_, _)
FirstFound(outs, i) ==
    IF i > Len(outs) THEN 0
    ELSE IF outs[i].k = "found" THEN i
    ELSE FirstFound(outs, i + 1)

\* one attempt of _captions_via_ytdlp: ran is the number of strategies run
captions_via_ytdlp(outs) ==
    LET i == FirstFound(outs, 1)
    IN IF i = 0 THEN [kind |-> "raise", content |-> <<>>, ran |-> Len(outs)]
       ELSE [kind |-> "return", content |-> outs[i].v, ran |-> i]

ProfilesInit ==
    /\ Quiet
    /\ file = [on |-> FALSE]
    /\ pf = [op |-> "profiles", attempt |-> 1, stage |-> "call",
             outs |-> [i \in 1..Len(strategies) |-> NoTracks], ran |-> 0, out |-> NoneVal]

\* get_captions_text, "Try yt-dlp as fallback": one attempt of
\* _captions_via_ytdlp; on its return the VTT is converted and returned, or
\* RuntimeError is raised when nothing is left; on its exception tenacity
\* waits for another attempt or gives up
ProfilesAttempt ==
    /\ pf.op = "profiles" /\ pf.stage = "call"
    /\ \E outs \in [1..Len(strategies) -> StrategyOutcomes] :
         LET r == captions_via_ytdlp(outs)
         IN pf' = [pf EXCEPT !.outs = outs, !.ran = r.ran,
                             !.out = IF r.kind = "return" THEN vtt_text(r.content) ELSE NoneVal,
                             !.stage = IF r.kind = "return" THEN "done"
                                       ELSE IF pf.attempt < YtdlpAttempts THEN "wait"
                                       ELSE "done"]
    /\ UNCHANGED <<gate, leaked, cache, now, started, pc, vid, job, fetched, bo, USE_YTDLP,
                   disk, file>>

\* tenacity: wait_exponential_jitter, then the next attempt
ProfilesRetry ==
    /\ pf.op = "profiles" /\ pf.stage = "wait"
    /\ pf' = [pf EXCEPT !.stage = "call", !.attempt = @ + 1]
    /\ UNCHANGED <<gate, leaked, cache, now, started, pc, vid, job, fetched, bo, USE_YTDLP,
                   disk, file>>

ProfilesNext == ProfilesAttempt \/ ProfilesRetry

SpecProfiles == ProfilesInit /\ [][ProfilesNext]_vars

----------------------------------------------------------------------------
(* The two other identifier extractors: cloud_run_app.py (process_video_job *)
(* raises ValueError when it finds none, before get_captions is called) and *)
(* cloud-run-worker/captions.py (a regular expression over the URL string)  *)

\* u.path.lstrip("/"): the segments with "/" between them
RECURSIVE JoinSlash(_)
JoinSlash(segs) ==
    IF segs = <<>> THEN <<>>
    ELSE IF Len(segs) = 1 THEN segs[1]
    ELSE segs[1] \o <<"/">> \o JoinSlash(Tail(segs))

\* "youtube.com" in host or "youtube-nocookie.com" in host
HasYoutubeCom(h) == h \in {"www.youtube.com", "youtube.com", "www.youtube-nocookie.com"}

\* cloud_run_app.py: extract_video_id
extract_video_id_app(u) ==
    IF HasYoutuBe(u.host)
    THEN IF u.path = <<>> THEN NoneVal ELSE Some(JoinSlash(u.path))
    ELSE IF HasYoutubeCom(u.host)
    THEN IF u.v # <<>> THEN Some(u.v)
         ELSE IF u.path # <<>> /\ u.path[1] \in {KwEmbed, KwV}
         THEN IF Len(u.path) > 1 THEN Some(u.path[2]) ELSE NoneVal
         ELSE NoneVal
    ELSE NoneVal

\* cloud-run-worker/captions.py: _YT_ID.search(url), the leftmost match of
\* (?:v=|youtu\.be/|/embed/|/shorts/)([A-Za-z0-9_-]{11}) in host, path, query
extract_video_id_worker(u) ==
    LET hits == {i \in 1..(Len(u.path) - 1) :
                    u.path[i] \in {KwEmbed, KwShorts} /\ Starts11(u.path[i + 1])}
    IN IF HasYoutuBe(u.host) /\ u.path # <<>> /\ Starts11(u.path[1])
       THEN Some(Prefix(u.path[1], 11))
       ELSE IF hits # {}
       THEN Some(Prefix(u.path[(CHOOSE i \in hits : \A j \in hits : i <= j) + 1], 11))
       ELSE IF Starts11(u.v) THEN Some(Prefix(u.v, 11))
       ELSE NoneVal

AgreeInit ==
    /\ Quiet
    /\ file = [on |-> FALSE]
    /\ \E u \in Urls : pf = [op |-> "agree", arg |-> u, api |-> NoneVal, app |-> NoneVal,
                             worker |-> NoneVal, done |-> FALSE]

AgreeCall ==
    /\ pf.op = "agree" /\ ~pf.done
    /\ pf' = [pf EXCEPT !.api = extract_video_id(pf.arg),
                        !.app = extract_video_id_app(pf.arg),
                        !.worker = extract_video_id_worker(pf.arg),
                        !.done = TRUE]
    /\ UNCHANGED <<gate, leaked, cache, now, started, pc, vid, job, fetched, bo, USE_YTDLP, disk, file>>

SpecAgree == AgreeInit /\ [][AgreeCall]_vars

----------------------------------------------------------------------------
(* cloud-run-worker/captions.py: get_captions_text, the API source          *)
(* (_captions_via_api under tenacity's retry) and the hand-over to yt-dlp.  *)
(* The in-memory _cache holds no entry for the video: it is written only    *)
(* when the API source returns, which ends the call.                        *)

lang_lists == <<<<"en">>, <<"en-US", "en-GB">>, <<"en", "en-US", "en-GB">>, <<"en">>, <<>>>>
ApiAttempts == 3        \* stop_after_attempt(3)

ApiOutcomes == {Ok("a1"), Raise("TranscriptsDisabled"), Raise("NoTranscriptFound"),
                Raise("TooManyRequests")}

\* the for loop of _captions_via_api over the language lists, from list i on:
\* (TranscriptsDisabled, NoTranscriptFound) -> continue, any other exception
\* is raised again, a transcript is returned; after the loop NoTranscriptFound
ApiRes(kind, v, calls) == [kind |-> kind, v |-> v, calls |-> calls]
RECURSIVE captions_via_api(_, _)
captions_via_api(outs, i) ==
    IF i > Len(outs) THEN ApiRes("raise", "NoTranscriptFound", Len(outs))
    ELSE IF outs[i].k = "text" THEN ApiRes("return", outs[i].v, i)
    ELSE IF outs[i].v \in {"TranscriptsDisabled", "NoTranscriptFound"}
    THEN captions_via_api(outs, i + 1)
    ELSE ApiRes("raise", outs[i].v, i)

\* what follows an exception of one attempt of _captions_via_api: tenacity
\* retries on every exception; after the last attempt get_captions_text's
\* `except Exception` logs it and goes on to yt-dlp
AfterApiFailure(attempt, exc) ==
    IF attempt < ApiAttempts THEN "wait" ELSE "fallback"

WorkerInit ==
    /\ Quiet
    /\ file = [on |-> FALSE]
    /\ pf = [op |-> "worker", attempt |-> 1, stage |-> "api",
             outs |-> [i \in 1..Len(lang_lists) |-> Ok("a1")], calls |-> 0,
             exc |-> "none", text |-> "none"]

\* one attempt of _captions_via_api
WorkerApi ==
    /\ pf.op = "worker" /\ pf.stage = "api"
    /\ \E outs \in [1..Len(lang_lists) -> ApiOutcomes] :
         LET r == captions_via_api(outs, 1)
         IN pf' = [pf EXCEPT !.outs = outs, !.calls = r.calls,
                             !.exc = IF r.kind = "raise" THEN r.v ELSE "none",
                             !.text = IF r.kind = "return" THEN r.v ELSE "none",
                             !.stage = IF r.kind = "return" THEN "text"
                                       ELSE AfterApiFailure(pf.attempt, r.v)]
    /\ UNCHANGED <<gate, leaked, cache, now, started, pc, vid, job, fetched, bo, USE_YTDLP,
                   disk, file>>

\* tenacity: wait_exponential_jitter, then the next attempt
WorkerApiRetry ==
    /\ pf.op = "worker" /\ pf.stage = "wait"
    /\ pf' = [pf EXCEPT !.stage = "api", !.attempt = @ + 1]
    /\ UNCHANGED <<gate, leaked, cache, now, started, pc, vid, job, fetched, bo, USE_YTDLP,
                   disk, file>>

\* get_captions_text: "Try yt-dlp as fallback"
WorkerFallback ==
    /\ pf.op = "worker" /\ pf.stage = "fallback"
    /\ pf' = [op |-> "profiles", attempt |-> 1, stage |-> "call",
              outs |-> [i \in 1..Len(strategies) |-> NoTracks], ran |-> 0, out |-> NoneVal]
    /\ UNCHANGED <<gate, leaked, cache, now, started, pc, vid, job, fetched, bo, USE_YTDLP,
                   disk, file>>

WorkerNext == WorkerApi \/ WorkerApiRetry \/ WorkerFallback \/ ProfilesAttempt \/ ProfilesRetry

SpecWorker == WorkerInit /\ [][WorkerNext]_vars

----------------------------------------------------------------------------
(* enhanced_youtube_transcript.py: EnhancedYouTubeTranscript                *)

preferred_languages == <<"en", "en-US", "en-GB">>

InPreferred(l) == \E i \in 1..Len(preferred_languages) : preferred_languages[i] = l

\* rank_transcript(t): (pref_index, manual_bonus) as one number, pref_index
\* being the more significant; manual_bonus = 0 if t.is_generated else 1
rank_transcript(t) ==
    LET pref_index == IF InPreferred(t.lang)
                      THEN (CHOOSE i \in 1..Len(preferred_languages) :
                                preferred_languages[i] = t.lang) - 1
                      ELSE Len(preferred_languages)
        manual_bonus == IF t.gen THEN 0 ELSE 1
    IN 2 * pref_index + manual_bonus

\* sorted(available_transcripts, key=rank_transcript): a stable insertion sort
RECURSIVE InsertByRankTranscript(_, _)
InsertByRankTranscript(t, s) ==
    IF s = <<>> THEN <<t>>
    ELSE IF rank_transcript(t) < rank_transcript(s[1]) THEN <<t>> \o s
    ELSE <<s[1]>> \o InsertByRankTranscript(t, Tail(s))

RECURSIVE sorted_transcripts(_)
sorted_transcripts(s) ==
    IF s = <<>> THEN <<>>
    ELSE InsertByRankTranscript(s[Len(s)], sorted_transcripts(SubSeq(s, 1, Len(s) - 1)))

\* the sort on any list of up to MaxTracks tracks
EnhRankInit ==
    /\ Quiet
    /\ file = [on |-> FALSE]
    /\ \E n \in 0..MaxTracks : \E ts \in [1..n -> RankTracks] :
         pf = [op |-> "rank_transcript", arg |-> ts, out |-> <<>>, done |-> FALSE]

EnhRankCall ==
    /\ pf.op = "rank_transcript" /\ ~pf.done
    /\ pf' = [pf EXCEPT !.out = sorted_transcripts(pf.arg), !.done = TRUE]
    /\ UNCHANGED <<gate, leaked, cache, now, started, pc, vid, job, fetched, bo, USE_YTDLP,
                   disk, file>>

SpecEnhRank == EnhRankInit /\ [][EnhRankCall]_vars

----------------------------------------------------------------------------
(* enhanced_youtube_transcript.py: get_transcript_chunked, the body         *)

ChunkedTries == 7       \* @backoff(..., tries=7, base=1.2, cap=12.0, jitter=1.0)

\* str(n) of a natural number, and int(s) of a string: the decimal digits
DecDigits == <<"0", "1", "2", "3", "4", "5", "6", "7", "8", "9">>

RECURSIVE ToStr(_)
ToStr(n) ==
    IF n < 10 THEN <<DecDigits[n + 1]>>
    ELSE ToStr(n \div 10) \o <<DecDigits[(n % 10) + 1]>>

IsDecimal(s) == s # <<>> /\ \A i \in 1..Len(s) : \E d \in 1..10 : DecDigits[d] = s[i]

RECURSIVE ToInt(_)
ToInt(s) ==
    IF s = <<>> THEN 0
    ELSE 10 * ToInt(SubSeq(s, 1, Len(s) - 1))
         + ((CHOOSE d \in 1..10 : DecDigits[d] = s[Len(s)]) - 1)

\* " ".join([item.get("text", "") for item in transcript if item.get("text")])
RECURSIVE JoinText(_)
JoinText(items) ==
    IF items = <<>> THEN <<>>
    ELSE LET rest == JoinText(Tail(items))
         IN IF items[1] = <<>> THEN rest
            ELSE IF rest = <<>> THEN items[1]
            ELSE items[1] \o <<" ">> \o rest

\* what the search for a transcript ends with
Got(items, method) == [kind |-> "ok", items |-> items, method |-> method, exc |-> "none"]
Failed(e) == [kind |-> "raise", items |-> <<>>, method |-> "none", exc |-> e]

\* "for t in sorted_transcripts": the first preferred-language track whose
\* fetch() returns ends the loop; a fetch() that raises is passed over
RECURSIVE PreferredPass(_, _)
PreferredPass(ts, i) ==
    IF i > Len(ts) THEN NoneVal
    ELSE IF InPreferred(ts[i].lang) /\ ts[i].fetch.k = "text" THEN Some(ts[i].fetch.v)
    ELSE PreferredPass(ts, i + 1)

\* "Try translation if no preferred language found"
RECURSIVE TranslationPass(_, _)
TranslationPass(ts, i) ==
    IF i > Len(ts) THEN NoneVal
    ELSE IF ts[i].transl /\ ts[i].tfetch.k = "text" THEN Some(ts[i].tfetch.v)
    ELSE TranslationPass(ts, i + 1)

\* the search for a transcript: list_transcripts, the direct get_transcript,
\* and after NoTranscriptFound or TranscriptsDisabled the ranked tracks; an
\* empty transcript counts as none ("if not transcript")
find_transcript(up) ==
    IF up.list # "ok" THEN Failed(up.list)
    ELSE IF up.direct.k = "text"
    THEN IF up.direct.v = <<>> THEN Failed("NoTranscriptFound")
         ELSE Got(up.direct.v, "direct")
    ELSE IF up.direct.v \notin {"NoTranscriptFound", "TranscriptsDisabled"}
    THEN Failed(up.direct.v)
    ELSE LET ts == sorted_transcripts(up.tracks)
             p  == PreferredPass(ts, 1)
             tr == TranslationPass(ts, 1)
         IN IF p.some /\ p.s # <<>> THEN Got(p.s, "preferred")
            ELSE IF tr.some /\ tr.s # <<>> THEN Got(tr.s, "translated")
            ELSE Failed("NoTranscriptFound")

\* results of get_transcript_chunked
ChunkResult(text, nc, total, s, e, method) ==
    [kind |-> "chunk", text |-> text, next_cursor |-> nc, total_chars |-> total,
     chunk_start |-> s, chunk_end |-> e, method |-> method, error_type |-> "none",
     exc |-> "none"]
ErrorResult(type) ==
    [kind |-> "error", text |-> <<>>, next_cursor |-> NoneVal, total_chars |-> 0,
     chunk_start |-> 0, chunk_end |-> 0, method |-> "none", error_type |-> type,
     exc |-> "none"]
Escaped(e) ==
    [kind |-> "raise", text |-> <<>>, next_cursor |-> NoneVal, total_chars |-> 0,
     chunk_start |-> 0, chunk_end |-> 0, method |-> "none", error_type |-> "none",
     exc |-> e]

\* a cursor that is one past the end of the chunk
next_cursor_skipping(end_pos, total) ==
    IF end_pos < total THEN Some(ToStr(end_pos + 1)) ELSE NoneVal

\* next_cursor_result = str(end_pos) if has_more else None
next_cursor_result(end_pos, total) ==
    IF end_pos < total THEN Some(ToStr(end_pos)) ELSE NoneVal

\* "Implement pagination logic": the chunk of full_text that next_cursor and
\* max_chunk_size select
paginate(full_text, next_cursor, max_chunk_size, method) ==
    LET start_pos == IF next_cursor.some /\ next_cursor.s # <<>> /\ IsDecimal(next_cursor.s)
                     THEN ToInt(next_cursor.s) ELSE 0
        end_pos   == Min(start_pos + max_chunk_size, Len(full_text))
    IN ChunkResult(SubSeq(full_text, start_pos + 1, end_pos),
                   next_cursor_result(end_pos, Len(full_text)),
                   Len(full_text), start_pos, end_pos, method)

\* the except clauses of get_transcript_chunked, in their order; msg is
\* str(e) of an exception that only `except Exception` catches
Messages == {"Subtitles are disabled", "Video unavailable", "XML", "other"}
error_type(e, msg) ==
    IF IsInstance(e, "TooManyRequests") THEN "rate_limited"
    ELSE IF Catches({"NoTranscriptFound", "TranscriptsDisabled"}, e) THEN "no_transcript"
    ELSE IF IsInstance(e, "VideoUnavailable") THEN "video_unavailable"
    ELSE IF msg = "Subtitles are disabled" THEN "subtitles_disabled"
    ELSE IF msg = "Video unavailable" THEN "video_unavailable"
    ELSE IF msg = "XML" THEN "xml_parse_error"
    ELSE "unknown"

\* list_transcripts and what follows it on one call: fault is what the
\* upstream raises on this call ("none": it behaves as up says)
search(up, fault) == IF fault # "none" THEN Failed(fault) ELSE find_transcript(up)

\* the function under the decorator on a cache miss, from the end of the
\* search on: found is what the search ended with and full_text the joined
\* text of the transcript found
get_transcript_chunked(found, full_text, msg, next_cursor, max_chunk_size) ==
    IF found.kind = "raise" THEN ErrorResult(error_type(found.exc, msg))
    ELSE paginate(full_text, next_cursor, max_chunk_size, found.method)

----------------------------------------------------------------------------
(* enhanced_youtube_transcript.py: get_full_transcript over the decorated   *)
(* get_transcript_chunked, for a fixed upstream and chunk size.  The chunk  *)
(* cache (cache.py, one entry per cursor) keeps what earlier calls stored.  *)

ItemTexts == { <<>>, <<"c", "d", "e">> }
Transcripts == UNION { [1..n -> ItemTexts] : n \in 0..MaxItems }

\* the listings served after the direct fetch found nothing: a manual and
\* a generated English track, a translatable French one, one whose fetch
\* fails
EnManual == Track("en", FALSE, FALSE, Ok(<< <<"a", "b">> >>), Raise("OtherError"))
EnGenerated ==
    Track("en", TRUE, FALSE, Ok(<< <<"c", "d", "e">>, <<"a", "b">> >>), Raise("OtherError"))
FrManual ==
    Track("fr", FALSE, TRUE, Raise("OtherError"), Ok(<< <<"a", "b">>, <<"a", "b">> >>))
EnUsBroken == Track("en-US", TRUE, FALSE, Raise("OtherError"), Raise("OtherError"))
Listings == { <<>>, <<EnManual, EnGenerated>>, <<FrManual>>, <<EnUsBroken, FrManual>>,
              <<EnUsBroken>> }

Upstream(l, d, ts) == [list |-> l, direct |-> d, tracks |-> ts]
Upstreams ==
    { Upstream("ok", Ok(t), <<>>) : t \in Transcripts }
    \cup { Upstream("ok", Raise(e), ts) :
             e \in {"NoTranscriptFound", "TranscriptsDisabled"},
             ts \in Listings }
    \cup { Upstream("ok", Raise("VideoUnavailable"), <<>>),
           Upstream("TranscriptsDisabled", Raise("TranscriptsDisabled"), <<>>) }

\* what the upstream may raise on one call whatever the video
Faults == {"TooManyRequests", "CouldNotRetrieveTranscript", "OtherError"}

FullOut(kind, text, total, n, type) ==
    [kind |-> kind, text |-> text, total_chars |-> total, chunks |-> n, error_type |-> type]

\* the local variables of get_full_transcript before its loop
FullLocals ==
    [stage |-> "call", attempt |-> 1, cursor |-> NoneVal, res |-> ErrorResult("none"),
     lastErr |-> "none", full_text |-> <<>>, chunks |-> <<>>, asked |-> <<NoneVal>>,
     out |-> FullOut("none", <<>>, 0, 0, "none")]

FullInit ==
    /\ Quiet
    /\ file = [on |-> FALSE]
    /\ \E up \in Upstreams : \E m \in 1..MaxChunkSize :
         pf = [op |-> "full", up |-> up, max |-> m, memo |-> {}, hits |-> 0]
              @@ FullLocals

\* cache_get(cache_key)
Cached(memo, cursor) == { m \in memo : m.cur = cursor }

\* backoff's wrapper after one call of get_transcript_chunked that ended
\* with r (err: what the upstream raised on the call): the return, or the
\* except branch with its sleep; p is the state before
chunked_attempt(p, hit, r, err) ==
    LET nxt == IF r.kind = "raise"
               THEN OnFailure(on_exceptions, ChunkedTries, p.attempt, r.exc)
               ELSE "return"
    IN [p EXCEPT
          !.res = r,
          !.lastErr = err,
          !.hits = IF hit THEN 1 ELSE @,
          !.memo = IF ~hit /\ r.kind = "chunk"
                   THEN @ \cup {[cur |-> p.cursor, res |-> r]} ELSE @,
          !.attempt = IF nxt = "sleep" THEN @ + 1 ELSE @,
          !.stage = IF nxt = "sleep" THEN "call"
                    ELSE IF nxt = "return" THEN "got" ELSE "raised"]

\* what the upstream raised on a call
Raised(up, fault) ==
    IF fault # "none" THEN fault
    ELSE IF up.list # "ok" THEN up.list
    ELSE IF up.direct.k = "raise" THEN up.direct.v
    ELSE "none"

\* one iteration of backoff's wrapper around get_transcript_chunked: the
\* cached result, or the search, the joined text and the chunk of it
ChunkedAttempt ==
    /\ pf.op = "full" /\ pf.stage = "call"
    /\ \E hits \in {Cached(pf.memo, pf.cursor)} :
         IF hits # {}
         THEN \E m \in hits : pf' = chunked_attempt(pf, TRUE, m.res, "none")
         ELSE \E fault \in Faults \cup {"none"} : \E msg \in Messages :
                \E found \in {search(pf.up, fault)} :
                  \E full_text \in {JoinText(found.items)} :
                    \E r \in {get_transcript_chunked(found, full_text, msg,
                                                     pf.cursor, pf.max)} :
                      pf' = chunked_attempt(pf, FALSE, r, Raised(pf.up, fault))
    /\ UNCHANGED <<gate, leaked, cache, now, started, pc, vid, job, fetched, bo, USE_YTDLP,
                   disk, file>>

\* get_full_transcript: the rest of one iteration of `while True`, and the
\* return after the loop
FullLoop ==
    /\ pf.op = "full" /\ pf.stage = "got"
    /\ LET r    == pf.res
           text == pf.full_text \o r.text
           n    == Len(pf.chunks) + 1
       IN IF r.kind = "error"
          THEN pf' = [pf EXCEPT !.stage = "returned",
                                !.out = FullOut("error", <<>>, 0, 0, r.error_type)]
          ELSE IF ~r.next_cursor.some \/ r.next_cursor.s = <<>>
          THEN pf' = [pf EXCEPT !.stage = "returned", !.full_text = text,
                                !.chunks = Append(@, r),
                                !.out = FullOut("full", text, r.total_chars, n, "none")]
          ELSE pf' = [pf EXCEPT !.stage = "call", !.attempt = 1, !.full_text = text,
                                !.chunks = Append(@, r),
                                !.cursor = r.next_cursor,
                                !.asked = Append(@, r.next_cursor)]
    /\ UNCHANGED <<gate, leaked, cache, now, started, pc, vid, job, fetched, bo, USE_YTDLP,
                   disk, file>>

\* a later call of get_full_transcript for the same video
FullAgain ==
    /\ pf.op = "full" /\ pf.stage = "returned"
    /\ pf' = [op |-> "full", up |-> pf.up, max |-> pf.max, memo |-> pf.memo, hits |-> 0]
             @@ FullLocals
    /\ UNCHANGED <<gate, leaked, cache, now, started, pc, vid, job, fetched, bo, USE_YTDLP,
                   disk, file>>

FullNext == ChunkedAttempt \/ FullLoop \/ FullAgain

SpecFull == FullInit /\ [][FullNext]_vars

\* every call and every loop iteration that can run does run
SpecFullFair == SpecFull /\ WF_vars(ChunkedAttempt) /\ WF_vars(FullLoop)

----------------------------------------------------------------------------
(* Properties *)

InBlock == BodyPcs \cup {"settle"}
Expired(r, t) == r # NoRec /\ t - r.ts > MaxAge
Fresh(r, t) == r # NoRec /\ t - r.ts <= MaxAge
LeavesCacheCheck(c) == pc[c] = "cache_check" /\ pc'[c] # "cache_check"

\* C1: with the gate at capacity 1 at most one caller is inside a
\* `with fetch_slot()` block at any time, so no two callers run get_captions
\* (and its upstream calls) at the same time.
C1_MutualExclusion ==
    /\ Cardinality({c \in Callers : pc[c] \in InBlock}) <= 1
    /\ Cardinality({c \in Callers : pc[c] \in {"primary", "sleep", "fallback"}}) <= 1

\* one caller is in the middle of its upstream calls while another waits at the gate
C1_Witness ==
    \E c, d \in Callers : c # d /\ pc[c] = "primary" /\ job[c].attempt = 2 /\ pc[d] = "acquire"

\* C2: a slot acquired through fetch_slot is released exactly once when the
\* guarded body ends, whether get_captions returned text, returned a failure
\* or raised; the free count never exceeds the capacity and equals it whenever
\* no caller is inside a block.
C2_ReleasedExactlyOnce ==
    /\ gate >= 0 /\ gate <= Capacity
    /\ \A c \in Callers :
         /\ pc[c] \in InBlock => job[c].acquired = 1 /\ job[c].releases = 0
         /\ pc[c] = "idle" /\ job[c].res.kind \in {"text", "fail", "raise"}
              => job[c].acquired = 1 /\ job[c].entered = 1 /\ job[c].releases = 1
    /\ (\A c \in Callers : pc[c] \notin InBlock) => gate = Capacity

\* a caller whose get_captions raised has left the block and the slot is free again
C2_Witness ==
    \E c \in Callers : /\ pc[c] = "idle" /\ job[c].res.kind = "raise"
                       /\ job[c].releases = 1 /\ gate = Capacity

\* C3 (as claimed): when an attempt of the primary ends with "captions
\* disabled", fetch_primary is attempted once, no backoff sleep happens and
\* the secondary source is not invoked.
C3_DisabledShortCircuit ==
    \A c \in Callers :
        job[c].lastExc = "TranscriptsDisabled"
            => job[c].attempt = 1 /\ job[c].sleeps = 0 /\ job[c].nFallback = 0

\* C4 (as claimed): when the primary answers "video unavailable", get_captions
\* ends at once with reason 'unavailable': one attempt, no sleep, no secondary
\* call, no cache write.
C4_UnavailableImmediate ==
    \A c \in Callers :
        job[c].lastExc = "VideoUnavailable"
            => /\ pc[c] = "exit" /\ job[c].res = ResFail("unavailable")
               /\ job[c].attempt = 1 /\ job[c].sleeps = 0
               /\ job[c].nFallback = 0 /\ job[c].nSet = 0

\* C5: when the store holds a fresh record for the identifier, get_captions
\* returns that record's text with path 'cache' without calling the primary or
\* the secondary source and without writing the cache.
C5_FreshHitNoUpstream ==
    [][\A c \in Callers :
         LeavesCacheCheck(c) /\ Fresh(cache[vid[c]], now)
            => /\ pc'[c] = "exit"
               /\ job'[c].res = ResText(cache[vid[c]].text, "cache")
               /\ job'[c].attempt = 0 /\ job'[c].sleeps = 0
               /\ job'[c].nFallback = 0 /\ job'[c].nSet = 0
               /\ cache' = cache]_vars

\* a call has ended in a cache hit on a record of exactly the maximum age
C5_Witness ==
    \E c \in Callers : /\ pc[c] = "exit" /\ job[c].res.path = "cache"
                       /\ job[c].attempt = 0 /\ job[c].nFallback = 0
                       /\ now - cache[vid[c]].ts = MaxAge

\* C6: a get_captions call made within the TTL of a successful call for the
\* same identifier makes no upstream call and returns the text the successful
\* call returned.
C6_SecondCallFromCache ==
    [][\A c \in Callers :
         LeavesCacheCheck(c) /\ Fresh(fetched[vid[c]], now)
            => /\ pc'[c] = "exit"
               /\ job'[c].res.kind = "text"
               /\ job'[c].res.text = fetched[vid[c]].text
               /\ job'[c].attempt = 0 /\ job'[c].nFallback = 0]_vars

\* the second job of a behaviour, later than the fetch, returned the fetched text
C6_Witness ==
    \E c \in Callers : /\ pc[c] = "exit" /\ started = 2 /\ job[c].attempt = 0
                       /\ job[c].res.kind = "text"
                       /\ job[c].res.text = fetched[vid[c]].text
                       /\ now > fetched[vid[c]].ts

\* C7: a record older than the TTL is a miss: cache_get returns absent, so
\* get_captions goes on to the primary source, and a text it then obtains
\* replaces the record, with the time of the write as its timestamp.
C7_ExpiredIsMiss ==
    [][\A c \in Callers :
         /\ LeavesCacheCheck(c) /\ Expired(cache[vid[c]], now)
              => cache_get(cache, vid[c], now) = "none"
                 /\ pc'[c] = "primary" /\ job'[c].attempt = 1
         /\ pc[c] \in {"primary", "fallback"} /\ pc'[c] = "exit" /\ job'[c].res.kind = "text"
              => /\ cache'[vid[c]] = Rec(now, job'[c].res.text)
                 /\ cache[vid[c]] # NoRec => cache'[vid[c]].ts > cache[vid[c]].ts]_vars

\* a caller is past the cache check, about to fetch, with the expired record in the store
C7_Witness ==
    \E c \in Callers : pc[c] = "primary" /\ job[c].attempt = 1 /\ Expired(cache[vid[c]], now)

\* C8 (as claimed): after cache_get has been called for an identifier whose
\* record is older than the TTL, the record no longer exists in the store.
C8_EvictedOnRead ==
    \A c \in Callers :
        pc[c] \in {"primary", "sleep", "fallback"} => cache[vid[c]] = NoRec

\* C8 (amended): cache_get leaves the store as it is, an expired record
\* included, and no step ever removes a record: a record only changes by
\* being overwritten.
C8_NeverEvicted ==
    [][/\ \A v \in Videos : cache[v] # NoRec => cache'[v] # NoRec
       /\ \A c \in Callers : LeavesCacheCheck(c) => cache' = cache]_vars

\* a whole call that found the record expired and failed has left it in the store
C8_Witness ==
    \E c \in Callers : /\ pc[c] = "exit" /\ job[c].res.kind = "fail"
                       /\ Expired(cache[vid[c]], now)

\* C9: under backoff with tries = N >= 1: when every attempt fails with a
\* retryable class the operation is invoked N times with N-1 sleeps and the
\* N-th error is raised; when attempt k succeeds its result is returned after
\* k invocations and k-1 sleeps; nothing is invoked after the wrapper ended.
C9_AttemptsAndSleeps ==
    /\ bo.pc = "call" => bo.calls = bo.attempt - 1 /\ bo.nsleeps = bo.attempt - 1
    /\ bo.pc = "sleep" => bo.calls = bo.attempt /\ bo.nsleeps = bo.attempt - 1
                          /\ bo.attempt < bo.tries
    /\ bo.pc = "raised" /\ Catches(bo.on, bo.out)
          => bo.calls = bo.tries /\ bo.nsleeps = bo.tries - 1 /\ bo.out = bo.lastErr
    /\ bo.pc = "returned"
          => /\ bo.calls = bo.attempt /\ bo.attempt <= bo.tries
             /\ bo.nsleeps = bo.attempt - 1 /\ bo.out = bo.lastRes
    /\ bo.pc \in {"raised", "returned"} => ~ENABLED BoNext

\* five attempts, all failed with a retryable class: five calls, four sleeps
C9_Witness ==
    /\ bo.pc = "raised" /\ bo.tries = 5 /\ bo.calls = 5 /\ bo.nsleeps = 4
    /\ bo.out = "TooManyRequests"

\* C10: for tries=5, base=0.8, cap=8.0 the pre-jitter delay before the n-th
\* retry is min(8.0, 0.8*2^(n-1)), that is 0.8, 1.6, 3.2, 6.4 for n = 1..4:
\* non-decreasing, at most the cap, and the sleep is the delay plus a jitter
\* in [0, jitter] (delays in tenths of a second).
C10_DelaySequence ==
    (bo.tries = 5 /\ bo.cfg = [base |-> 8, cap |-> 80, jitter |-> 5])
        => /\ Len(bo.delays) = bo.nsleeps /\ bo.nsleeps <= 4
           /\ \A n \in 1..Len(bo.delays) :
                /\ bo.delays[n] = <<8, 16, 32, 64>>[n]
                /\ bo.delays[n] <= 80
                /\ n > 1 => bo.delays[n - 1] <= bo.delays[n]
           /\ bo.nsleeps > 0
                => /\ bo.slept >= bo.delays[bo.nsleeps]
                   /\ bo.slept <= bo.delays[bo.nsleeps] + 5

\* the fourth retry of the default configuration slept its delay plus the full jitter
C10_Witness ==
    /\ bo.tries = 5 /\ bo.cfg = [base |-> 8, cap |-> 80, jitter |-> 5]
    /\ bo.nsleeps = 4 /\ bo.slept = 69

\* C11: a failure outside the retryable classes leaves the wrapper on the
\* attempt where it occurs, whatever the attempt number: it is the error the
\* wrapper raises, no sleep follows it and the operation is not invoked again.
C11_NonRetryableImmediate ==
    (bo.lastErr # "none" /\ ~Catches(bo.on, bo.lastErr))
        => /\ bo.pc = "raised" /\ bo.out = bo.lastErr
           /\ bo.calls = bo.attempt /\ bo.nsleeps = bo.attempt - 1
           /\ ~ENABLED BoNext

\* the third of five attempts raised a library error that the wrapper, set to
\* retry TooManyRequests only, does not catch
C11_Witness ==
    /\ bo.pc = "raised" /\ bo.tries = 5 /\ bo.attempt = 3 /\ bo.calls = 3
    /\ bo.nsleeps = 2 /\ bo.on = {"TooManyRequests"} /\ bo.out = "TranscriptsDisabled"


\* C12: when the last of the primary's attempts fails with a retryable class
\* get_captions goes on to the secondary source, and when that yields a text
\* get_captions returns it with the path of the scrape ('yt_dlp') and writes it
\* to the cache with the time of the write, so that cache_get returns it for
\* the whole TTL and a later call that finds it makes no upstream call.
C12_FallbackTextCached ==
    [][\A c \in Callers :
         /\ (pc[c] = "primary" /\ pc'[c] # "primary" /\ job'[c].nSet = 0
                /\ job[c].attempt = PrimaryTries /\ Catches(on_exceptions, job'[c].lastExc))
              => pc'[c] = "fallback" /\ job'[c].sleeps = PrimaryTries - 1 /\ cache' = cache
         /\ (pc[c] = "fallback" /\ job'[c].fb.kind = "text")
              => /\ job[c].attempt = PrimaryTries
                 /\ pc'[c] = "exit"
                 /\ job'[c].res = ResText(job'[c].fb.text, "yt_dlp")
                 /\ job'[c].nSet = 1 /\ job'[c].nFallback = 1
                 /\ cache'[vid[c]] = Rec(now, job'[c].fb.text)
                 /\ \A k \in 0..MaxTicks :
                      k * TickSeconds <= MaxAge
                        => cache_get(cache', vid[c], now + k * TickSeconds) = job'[c].fb.text
         /\ (LeavesCacheCheck(c) /\ cache_get(cache, vid[c], now) # "none")
              => pc'[c] = "exit" /\ job'[c].attempt = 0 /\ job'[c].nFallback = 0]_vars

\* five failed attempts, then the scrape gave the text that is now in the cache
C12_Witness ==
    \E c \in Callers : /\ pc[c] = "exit" /\ job[c].res.path = "yt_dlp"
                       /\ job[c].attempt = PrimaryTries /\ job[c].sleeps = PrimaryTries - 1
                       /\ job[c].nSet = 1 /\ cache[vid[c]].text = job[c].res.text

\* C13: when the primary is exhausted and the secondary source yields no text
\* (yt-dlp cannot be imported, fails, leaves no subtitle, or is disabled by
\* configuration, in which case it is not run), get_captions returns no text
\* with reason 'rate_limited_or_blocked' and writes nothing to the cache.
C13_NoTextBlocked ==
    [][\A c \in Callers :
         (pc[c] = "fallback" /\ pc'[c] # "fallback")
            => /\ job[c].attempt = PrimaryTries
               /\ ~USE_YTDLP => /\ job'[c].fb.kind = "none" /\ ~job'[c].fb.ran
                                /\ job'[c].fb.path = "disabled"
               /\ job'[c].fb.kind = "none"
                    => /\ pc'[c] = "exit"
                       /\ job'[c].res = ResFail("rate_limited_or_blocked")
                       /\ job'[c].nSet = 0 /\ job'[c].nFallback = 1
                       /\ cache' = cache /\ fetched' = fetched]_vars

\* scraping is disabled: the call ended blocked, yt-dlp was not run and the
\* store has no record
C13_Witness ==
    \E c \in Callers : /\ ~USE_YTDLP /\ pc[c] = "exit"
                       /\ job[c].res = ResFail("rate_limited_or_blocked")
                       /\ job[c].fb.path = "disabled" /\ ~job[c].fb.ran
                       /\ job[c].attempt = PrimaryTries /\ cache[vid[c]] = NoRec


\* position of a language in the preferred list, or len+1 if absent
PrefPos(l) ==
    IF \E i \in 1..Len(prefer) : prefer[i] = l
    THEN (CHOOSE i \in 1..Len(prefer) : prefer[i] = l) - 1
    ELSE Len(prefer) + 1
\* (pref, manual_bonus) of a is at most that of b, as Python compares tuples
KeyLeq(a, b) ==
    \/ PrefPos(a.lang) < PrefPos(b.lang)
    \/ PrefPos(a.lang) = PrefPos(b.lang) /\ (~a.gen \/ b.gen)
Count(s, x) == Cardinality({i \in 1..Len(s) : s[i] = x})

\* C14: the ranking orders the candidates by (position of the language in the
\* preferred list, or len+1 if absent; 0 if manual else 1) ascending: the
\* result holds the same tracks, language preference dominates and manual
\* beats generated only within one language; [en/generated, en/manual,
\* fr/manual] comes out as en/manual, en/generated, fr.
C14_RankOrder ==
    (pf.op = "rank" /\ pf.done)
        => /\ Len(pf.out) = Len(pf.arg)
           /\ \A x \in RankTracks : Count(pf.out, x) = Count(pf.arg, x)
           /\ \A i, j \in 1..Len(pf.out) : i < j => KeyLeq(pf.out[i], pf.out[j])
           /\ \A i, j \in 1..Len(pf.out) :
                (i < j /\ pf.out[i].lang = pf.out[j].lang /\ pf.out[i].gen)
                    => pf.out[j].gen
           /\ pf.arg = << Track("en", TRUE, FALSE, Empty, Empty),
                          Track("en", FALSE, FALSE, Empty, Empty),
                          Track("fr", FALSE, FALSE, Empty, Empty) >>
                => pf.out = << Track("en", FALSE, FALSE, Empty, Empty),
                               Track("en", TRUE, FALSE, Empty, Empty),
                               Track("fr", FALSE, FALSE, Empty, Empty) >>

\* the example of the claim has been ranked: the manual track moved to the front
C14_Witness ==
    /\ pf.op = "rank" /\ pf.done
    /\ pf.arg = << Track("en", TRUE, FALSE, Empty, Empty),
                   Track("en", FALSE, FALSE, Empty, Empty),
                   Track("fr", FALSE, FALSE, Empty, Empty) >>
    /\ pf.out[1] = Track("en", FALSE, FALSE, Empty, Empty)


\* C15: when two attempts of the primary have failed with a retryable error
\* and the third gets as far as the listing, whose first candidate is a manual
\* track in a preferred language with a text, get_captions returns that text
\* with path 'primary_list' and generated = false after exactly three attempts
\* and two sleeps, without calling the secondary source, and caches the text.
C15_ListAfterTwoFailures ==
    [][\A c \in Callers :
         (pc[c] = "primary" /\ pc'[c] # "primary" /\ job[c].attempt = 3
            /\ job'[c].top # "none")
            => /\ job[c].sleeps = 2 /\ Catches(on_exceptions, job[c].lastExc)
               /\ pc'[c] = "exit"
               /\ job'[c].res = ResText(job'[c].top, "primary_list")
               /\ job'[c].meta.path = "primary_list" /\ ~job'[c].meta.gen
               /\ InPrefer(job'[c].meta.lang)
               /\ job'[c].attempt = 3 /\ job'[c].sleeps = 2
               /\ job'[c].nFallback = 0 /\ job'[c].nSet = 1
               /\ cache'[vid[c]] = Rec(now, job'[c].top)]_vars

\* the third attempt returned the manual English track's text, now in the cache
C15_Witness ==
    \E c \in Callers : /\ pc[c] = "exit" /\ job[c].attempt = 3 /\ job[c].sleeps = 2
                       /\ job[c].res.path = "primary_list" /\ ~job[c].meta.gen
                       /\ job[c].meta.lang = "en" /\ job[c].top = job[c].res.text
                       /\ cache[vid[c]].text = job[c].res.text


\* an 11-character token of valid characters
IsId(x) == Len(x) = 11 /\ \A i \in 1..11 : x[i] \in IdChars
\* the five URL shapes, and the token of a URL of one of them
ShapeToken(u) ==
    IF u.host = "www.youtube.com" /\ IsId(u.v) THEN Some(u.v)
    ELSE IF u.host = "youtu.be" /\ u.v = <<>> /\ Len(u.path) = 1 /\ IsId(u.path[1])
    THEN Some(u.path[1])
    ELSE IF u.host = "www.youtube.com" /\ u.v = <<>> /\ Len(u.path) = 2
            /\ u.path[1] \in ShapeKws /\ IsId(u.path[2])
    THEN Some(u.path[2])
    ELSE NoneVal

\* C16 (as claimed): extract_video_id returns exactly the 11-character token
\* for each of the five URL shapes and None for every other string, URLs of
\* other hosts and tokens that are not 11 valid characters included.
C16_ExtractExact ==
    (pf.op = "extract" /\ pf.done) => pf.out = ShapeToken(pf.arg)


C18_TimeoutOnDeadline ==
    \A c \in Callers :
        (job[c].late /\ pc[c] = "exit") => job[c].res = ResFail("timeout")

\* C18 (amended): there is no deadline: a caller queued at the gate leaves the
\* queue only by acquiring a slot that is free, a caller sleeping between
\* retries always goes on to its next attempt, however much time passes, and
\* no result carries a 'timeout' diagnostic.
C18_NoDeadline ==
    [][\A c \in Callers :
         /\ pc[c] = "acquire"
              => /\ pc'[c] \in {"acquire", "settle"}
                 /\ pc'[c] = "settle" => gate > 0 /\ gate' = gate - 1
         /\ pc[c] = "sleep"
              => /\ pc'[c] \in {"sleep", "primary"}
                 /\ pc'[c] = "primary" => job'[c].attempt = job[c].attempt + 1
         /\ job'[c].res.reason # "timeout"]_vars

\* time passed while the caller slept between two attempts; it went on and
\* returned a text
C18_Witness ==
    \E c \in Callers : /\ job[c].late /\ pc[c] = "exit" /\ job[c].sleeps >= 1
                       /\ job[c].res.kind = "text" /\ now > 0


\* C19 (as claimed): whenever an exception is delivered to a caller after it
\* acquired the semaphore, the settle delay inside __enter__ included, the
\* slot is released: once no caller is inside fetch_slot the gate is free
\* again for later callers.
C19_CancelReleases ==
    (\A c \in Callers : pc[c] \notin InBlock) => gate = Capacity


\* C20 (as claimed): get_captions never raises: whatever any upstream call
\* raises, the call ends by handing back a (text, diagnostics) pair.
C20_NeverRaises ==
    \A c \in Callers : job[c].res.kind # "raise"


\* C21 (as claimed): every failure get_captions returns carries a reason of
\* the fixed vocabulary that identifies its cause: 'captions_disabled' when the
\* primary ended with captions disabled, 'unavailable' when the video is
\* unavailable, 'no_working_track' when no track yielded a text,
\* 'rate_limited_or_blocked' when both sources were exhausted.
C21_ReasonIdentifiesCause ==
    \A c \in Callers :
        (pc[c] = "exit" /\ job[c].res.kind = "fail")
            => /\ job[c].res.reason \in {"no_video_id", "unavailable", "captions_disabled",
                                         "rate_limited_or_blocked", "no_working_track"}
               /\ job[c].lastExc = "TranscriptsDisabled"
                    => job[c].res.reason = "captions_disabled"
               /\ job[c].lastExc = "VideoUnavailable"
                    => job[c].res.reason = "unavailable"
               /\ job[c].lastExc = "NoTranscriptFound"
                    => job[c].res.reason = "no_working_track"
               /\ job[c].lastExc \in {"TooManyRequests", "CouldNotRetrieveTranscript"}
                    => job[c].res.reason = "rate_limited_or_blocked"


\* the attempt gets as far as the listing and the listing returns
ReachedList ==
    /\ pf.op = "primary" /\ pf.done
    /\ pf.direct.k # "text"
    /\ pf.direct.k = "raise" => pf.direct.v \in {"NoTranscriptFound", "TranscriptsDisabled"}
    /\ pf.listing.k = "tracks"
Tracks == pf.listing.tracks

\* C22 (as claimed): in every pass a track whose fetch() raises is skipped, so
\* its error is never the outcome while other candidates remain: when some
\* listed track would serve a text, the attempt returns a text.
C22_FetchErrorSkipped ==
    (ReachedList /\ \E i \in 1..Len(Tracks) : Tracks[i].fetch.k = "text")
        => pf.out.kind = "return"


\* every chunk of a text comes from the same record
Whole(texts) == \A i, j \in 1..Len(texts) : texts[i] = texts[j]

\* C23 (as claimed): under any interleaving of cache_set and cache_get calls
\* for one identifier the store never holds a partial record, and cache_get
\* returns absent or the complete text of one cache_set, never a truncated or
\* mixed text.
C23_WholeRecords ==
    file.on
        => /\ file.exists
                => Parses(file.content) /\ Whole([i \in 1..Len(file.content) |->
                                                     file.content[i].text])
           /\ Whole(file.got)

\* the second half of C23 alone: what cache_get returns
C23_GetWhole == file.on => Whole(file.got)



Cands25 == SortedByRank(pf.listing.tracks)
Buckets25 == Filter(pf.listing.tracks, FALSE) \o Filter(pf.listing.tracks, TRUE)
ThrDirect == pf.direct.k = "raise" /\ pf.direct.v \in Throttled
ListingTried == pf.direct.k # "text" /\ ~ThrDirect
ThrListing == ListingTried /\ pf.listing.k = "raise" /\ pf.listing.v \in Throttled
PassesTried == ListingTried /\ pf.listing.k = "tracks"
ThrSame ==
    /\ PassesTried
    /\ SameLanguagePass(Cands25, 1).kind = "raise"
    /\ SameLanguagePass(Cands25, 1).exc \in Throttled
ThrTranslate ==
    /\ PassesTried
    /\ SameLanguagePass(Cands25, 1).kind = "next"
    /\ \E j \in 1..Len(Cands25) :
         /\ Cands25[j].transl /\ Cands25[j].tfetch.k = "raise"
         /\ Cands25[j].tfetch.v \in Throttled
         /\ \A k \in 1..(j - 1) : ~(Cands25[k].transl /\ Cands25[k].tfetch.k = "text")
ThrAny ==
    /\ PassesTried
    /\ SameLanguagePass(Cands25, 1).kind = "next"
    /\ TranslatePass(Cands25, 1).kind = "next"
    /\ \E j \in 1..Len(Buckets25) :
         /\ Buckets25[j].fetch.k = "raise" /\ Buckets25[j].fetch.v \in Throttled
         /\ \A k \in 1..(j - 1) : Buckets25[k].fetch.k # "text"
ThrottleRaised == ThrDirect \/ ThrListing \/ ThrSame \/ ThrTranslate \/ ThrAny
Attempted == pf.op = "retry" /\ pf.stage # "call"

\* C25 (as stated): an attempt of the primary cascade in which a rate-limit or
\* generic retrieval failure was raised at any step (direct fetch, listing, a
\* track's fetch or translate in any pass) is retried while attempts are left
\* and escalates to the secondary source after the last attempt.
C25_ThrottleRetried ==
    (Attempted /\ ThrottleRaised)
        => pf.stage = IF pf.attempt < PrimaryTries THEN "sleep" ELSE "fallback"

\* what does hold of C25's case: a rate-limit or generic retrieval failure
\* raised at any step never ends in a permanent error.  Raised by the
\* direct fetch, the listing or a same-language track it fails the attempt,
\* which is retried while attempts are left and escalates to the secondary
\* source after the last one.  Raised by a track in the translate or any-track
\* pass it is swallowed and the cascade goes on in the same attempt: a later
\* track's text is returned without any retry, and only when no track yields
\* text does the attempt fail, to be retried and escalated in the same way.
C25_ThrottleNeverPermanent ==
    (Attempted /\ ThrottleRaised)
        => /\ pf.attempt <= PrimaryTries
           /\ pf.stage \in {"text", "sleep", "fallback"}
           /\ pf.stage = "text"
                => /\ ~(ThrDirect \/ ThrListing \/ ThrSame)
                   /\ pf.out.path \in {"primary_translated", "primary_any"}
           /\ pf.stage # "text"
                => /\ pf.out.kind = "raise"
                   /\ pf.stage = IF pf.attempt < PrimaryTries THEN "sleep" ELSE "fallback"

\* the last attempt failed on tracks that were all rate-limited in the
\* any-track pass, and the call went on to the secondary source
C25_EscalatedFromAnyPass ==
    /\ Attempted /\ ThrAny
    /\ pf.attempt = PrimaryTries
    /\ pf.out = Thr("NoTranscriptFound")
    /\ pf.stage = "fallback"



\* what C27 calls a blank, a purely numeric and a timing line
BlankLine(l) == \A i \in 1..Len(l) : l[i] \in Whitespace
NumericLine(l) ==
    /\ ~BlankLine(l)
    /\ \A i \in 1..Len(l) : l[i] \in Digits \cup Whitespace
    /\ \A i, j, k \in 1..Len(l) :
         (i < j /\ j < k /\ l[i] \in Digits /\ l[k] \in Digits) => l[j] \in Digits
TimingLine(l) ==
    \E i \in 1..Len(l) : i + 2 <= Len(l) /\ SubSeq(l, i, i + 2) = <<"-", "-", ">">>
KeptLine(l) == ~BlankLine(l) /\ ~NumericLine(l) /\ ~TimingLine(l)

\* the lines of a text
RECURSIVE SplitLines(_)
SplitLines(text) ==
    IF \A i \in 1..Len(text) : text[i] # "\n" THEN <<text>>
    ELSE LET i == CHOOSE i \in 1..Len(text) :
                    text[i] = "\n" /\ \A j \in 1..(i - 1) : text[j] # "\n"
         IN <<SubSeq(text, 1, i - 1)>> \o SplitLines(SubSeq(text, i + 1, Len(text)))

\* C27: subtitle stripping outputs exactly the input lines that are not blank,
\* not purely numeric and do not contain the timing arrow "-->", in their
\* original order (the SRT reader hands each of them back without its leading
\* and trailing whitespace, the VTT converter as it is); no line of the output
\* is blank, purely numeric or a timing line; and when no line remains the
\* result is absent, not an empty text.
C27_StripKeepsLines ==
    (pf.op = "strip" /\ pf.done)
        => LET kept == SelectSeq(pf.input, KeptLine)
           IN IF kept = <<>> THEN pf.out = NoneVal
              ELSE /\ pf.out.some
                   /\ LET lines == SplitLines(pf.out.s)
                      IN /\ Len(lines) = Len(kept)
                         /\ \A i \in 1..Len(kept) :
                              /\ lines[i] = IF pf.which = "srt" THEN StrStrip(kept[i])
                                            ELSE kept[i]
                              /\ KeptLine(lines[i])

\* a file with a timing line, which is dropped, and a line of text with
\* whitespace around it, which is kept
C27_Witness ==
    /\ pf.op = "strip" /\ pf.done
    /\ Len(pf.input) = 2
    /\ TimingLine(pf.input[1])
    /\ KeptLine(pf.input[2]) /\ StrStrip(pf.input[2]) # pf.input[2]
    /\ pf.out.some
    /\ SplitLines(pf.out.s) = <<IF pf.which = "srt" THEN StrStrip(pf.input[2]) ELSE pf.input[2]>>



\* strategy i of the last attempt yields a text that is not empty once stripped
Yields(i) == pf.outs[i].k = "found" /\ vtt_text(pf.outs[i].v).some

\* C26: the secondary source tries its request profiles in sequence; a profile
\* that fails, times out or yields no text does not stop the next one from
\* being tried; the result is the stripped text of the first profile that
\* yields a non-empty one, no later profile being run; and the call fails only
\* when every profile was run and none yielded a text.
C26_ProfilesInSequence ==
    (pf.op = "profiles" /\ pf.stage = "done")
        => LET ys == {i \in 1..Len(strategies) : Yields(i)}
           IN IF ys = {}
              THEN pf.out = NoneVal /\ pf.ran = Len(strategies)
              ELSE LET i == CHOOSE i \in ys : \A j \in ys : i <= j
                   IN pf.out = vtt_text(pf.outs[i].v) /\ pf.ran = i

\* what does hold: a strategy that times out, fails or names no track is
\* followed by the next one, and the first content read ends the attempt
C26_FirstContentWins ==
    (pf.op = "profiles" /\ pf.stage = "done")
        => LET fs == {i \in 1..Len(strategies) : pf.outs[i].k = "found"}
           IN IF fs = {}
              THEN pf.out = NoneVal /\ pf.ran = Len(strategies) /\ pf.attempt = YtdlpAttempts
              ELSE LET i == CHOOSE i \in fs : \A j \in fs : i <= j
                   IN pf.out = vtt_text(pf.outs[i].v) /\ pf.ran = i



\* the tries of one attempt after the listing, in the order of C28: the ranked
\* tracks in a preferred language, the ranked translatable tracks (translated),
\* the manual tracks, the generated tracks
PreferredTrack(c) == InPrefer(c.lang)
TranslatableTrack(c) == c.transl
TryOf(c, o, p) == [o |-> o, path |-> p, lang |-> c.lang, gen |-> c.gen]
Tries28 ==
    LET cands == SortedByRank(Tracks)
        s1 == SelectSeq(cands, PreferredTrack)
        s2 == SelectSeq(cands, TranslatableTrack)
        s3 == Filter(Tracks, FALSE) \o Filter(Tracks, TRUE)
    IN [i \in 1..Len(s1) |-> TryOf(s1[i], s1[i].fetch, "primary_list")]
       \o [i \in 1..Len(s2) |-> TryOf(s2[i], s2[i].tfetch, "primary_translated")]
       \o [i \in 1..Len(s3) |-> TryOf(s3[i], s3[i].fetch, "primary_any")]
FirstYield28 ==
    LET ys == {i \in 1..Len(Tries28) : Tries28[i].o.k = "text"}
    IN IF ys = {} THEN Thr("NoTranscriptFound")
       ELSE LET i == CHOOSE i \in ys : \A j \in ys : i <= j
            IN Ret(Tries28[i].o.v, Tries28[i].path, Tries28[i].lang, Tries28[i].gen)

\* C28: within one attempt of fetch_primary the sources are tried in the order
\* direct fetch, ranked preferred-language tracks, ranked translatable tracks,
\* manual tracks, generated tracks; the result is the text of the first try
\* that yields one, tagged with that pass's path (a direct success is the
\* result whatever the listing holds), and when no try yields a text the
\* 'no working track' error is raised.
C28_FirstYieldWins ==
    (pf.op = "primary" /\ pf.done)
        => /\ pf.direct.k = "text"
                => pf.out = Ret(pf.direct.v, "primary_direct", "none", FALSE)
           /\ ReachedList => pf.out = FirstYield28

\* what does hold: the same, for the attempts in which no track that the
\* same-language pass fetches before its first text raises
C28_FirstYieldUnlessRaised ==
    (pf.op = "primary" /\ pf.done)
        => /\ pf.direct.k = "text"
                => pf.out = Ret(pf.direct.v, "primary_direct", "none", FALSE)
           /\ (ReachedList /\ SameLanguagePass(SortedByRank(Tracks), 1).kind # "raise")
                => pf.out = FirstYield28



\* the translatable candidates the translate pass calls before it ends: every
\* one up to the first whose translated fetch gives a text
TranslateCalls ==
    LET cands == SortedByRank(Tracks)
    IN {j \in 1..Len(cands) :
            /\ cands[j].transl
            /\ \A k \in 1..(j - 1) : ~(cands[k].transl /\ cands[k].tfetch.k = "text")}
TranslateFailed ==
    \E j \in TranslateCalls : SortedByRank(Tracks)[j].tfetch.k = "raise"
AfterSamePass == ReachedList /\ SameLanguagePass(SortedByRank(Tracks), 1).kind = "next"

\* C29: in the translation pass a failure of translate() or of the translated
\* track's fetch() on one candidate is not fatal.  When the pass is reached
\* and a candidate fails in it, the attempt does not end with that failure:
\* the text of the next translatable candidate that serves one is returned
\* with path 'primary_translated', and when none does the any-track pass is
\* run, whose first text is returned with path 'primary_any'; the attempt
\* raises only the 'no working track' error, and only when no track of the
\* any-track pass serves a text either.
C29_TranslateFailureNotFatal ==
    (pf.op = "primary" /\ pf.done /\ AfterSamePass /\ TranslateFailed)
        => LET cands == SortedByRank(Tracks)
               ts == {j \in 1..Len(cands) : cands[j].transl /\ cands[j].tfetch.k = "text"}
               any == Filter(Tracks, FALSE) \o Filter(Tracks, TRUE)
               as == {j \in 1..Len(any) : any[j].fetch.k = "text"}
           IN IF ts # {}
              THEN LET j == CHOOSE j \in ts : \A k \in ts : j <= k
                   IN pf.out = Ret(cands[j].tfetch.v, "primary_translated",
                                   cands[j].lang, cands[j].gen)
              ELSE IF as # {}
              THEN LET j == CHOOSE j \in as : \A k \in as : j <= k
                   IN pf.out = Ret(any[j].fetch.v, "primary_any", any[j].lang, any[j].gen)
              ELSE pf.out = Thr("NoTranscriptFound")

\* the first translatable candidate failed and the second one's translation
\* was returned
C29_Witness ==
    /\ pf.op = "primary" /\ pf.done /\ AfterSamePass
    /\ Len(Tracks) = 2
    /\ LET cands == SortedByRank(Tracks)
       IN /\ cands[1].transl /\ cands[1].tfetch.k = "raise"
          /\ cands[2].transl /\ cands[2].tfetch.k = "text"
          /\ pf.out = Ret(cands[2].tfetch.v, "primary_translated", cands[2].lang, cands[2].gen)



\* C30: when no identifier can be extracted from the input, get_captions
\* returns (None, {'reason': 'no_video_id'}) without reading or writing the
\* cache and without calling the primary or the secondary source.
C30_NoIdentifier ==
    [][\A c \in Callers :
          /\ (LeavesCacheCheck(c) /\ vid[c] = "none")
                => /\ job'[c].res = ResFail("no_video_id")
                   /\ pc'[c] = "exit"
                   /\ cache' = cache /\ fetched' = fetched
                   /\ job'[c].nGet = 0 /\ job'[c].nSet = 0
                   /\ job'[c].attempt = 0 /\ job'[c].nFallback = 0
          /\ vid'[c] = "none" => pc'[c] \notin {"primary", "sleep", "fallback"}
      ]_vars

\* a call without identifier has returned while the cache holds a record,
\* which it left alone
C30_Witness ==
    \E c \in Callers :
        /\ vid[c] = "none" /\ pc[c] = "exit"
        /\ job[c].res = ResFail("no_video_id")
        /\ job[c].nGet = 0 /\ job[c].attempt = 0
        /\ \E v \in Videos : cache[v] # NoRec



\* C31: every value get_captions returns is either a non-empty text with
\* diagnostics that carry a path and no reason, or no text with diagnostics
\* that carry a reason; an empty text is never returned as a success and a
\* text never comes with a reason.
C31_ResultShape ==
    \A c \in Callers :
        LET r == job[c].res IN
        /\ r.kind \in {"none", "text", "fail", "raise"}
        /\ pc[c] \in BodyPcs \ {"exit"} => r.kind = "none"
        /\ (pc[c] = "exit" /\ r.kind = "text")
             => /\ r.text \in Texts
                /\ r.path \in {"cache", "primary_direct", "primary_list", "primary_translated",
                               "primary_any", "yt_dlp"}
                /\ r.reason = "none"
        /\ (pc[c] = "exit" /\ r.kind = "fail")
             => /\ r.text = "none" /\ r.path = "none"
                /\ r.reason \in {"no_video_id", "unavailable", "rate_limited_or_blocked"}

\* one call has returned a text and another one a reason
C31_Witness ==
    \E c, d \in Callers :
        /\ pc[c] = "exit" /\ job[c].res.kind = "text" /\ job[c].res.path = "primary_any"
        /\ pc[d] = "idle" /\ job[d].res.kind = "fail"



\* caller c returns from get_captions in this step
Returns(c) == pc[c] \in {"cache_check", "primary", "fallback"} /\ pc'[c] = "exit"
FromSource(c) == job'[c].res.kind = "text" /\ job'[c].res.path # "cache"

\* C32: get_captions writes the cache only when it returns a text obtained
\* from the primary or the secondary source, and then stores exactly the
\* returned text under the extracted identifier; a call that ends in a cache
\* hit or in a failure leaves every record as it was, and no call changes the
\* record of another identifier.
C32_WritesOnlyFetchedText ==
    [][/\ \A c \in Callers :
            /\ (Returns(c) /\ FromSource(c))
                  => /\ job'[c].nSet = job[c].nSet + 1
                     /\ cache'[vid[c]] = Rec(now, job'[c].res.text)
                     /\ \A v \in Videos \ {vid[c]} : cache'[v] = cache[v]
            /\ (Returns(c) /\ ~FromSource(c))
                  => /\ job'[c].nSet = 0
                     /\ cache' = cache
            /\ job'[c].nSet # job[c].nSet
                  => \/ Returns(c) /\ FromSource(c)
                     \/ job'[c].nSet = 0
       /\ cache' # cache => \E c \in Callers : Returns(c) /\ FromSource(c)
      ]_vars

\* a call has stored the text it returns, and the older record of the other
\* identifier is still there
C32_Witness ==
    \E c \in Callers : \E v \in Videos :
        /\ pc[c] = "exit" /\ job[c].res.kind = "text" /\ job[c].res.path = "yt_dlp"
        /\ v # vid[c]
        /\ cache[vid[c]] = Rec(now, job[c].res.text)
        /\ cache[v] # NoRec /\ cache[v].ts < now



\* C33: when two process_video_job callers ask for the same uncached
\* identifier at the same time and the first to hold the slot succeeds, one
\* upstream fetch is made in all.  The second caller makes its cache check
\* only once it holds the slot, alone in the guarded block; the record the
\* first caller stored before it released the slot is then in the cache for
\* the caller that waits, and the waiting caller's check, made while the
\* record is fresh, is a hit that calls neither source.
C33_SecondCallerHits ==
    [][\A c, d \in Callers :
          /\ (pc[d] = "cache_check" /\ c # d) => pc[c] \notin InBlock
          /\ (Returns(c) /\ FromSource(c) /\ c # d /\ vid[d] = vid[c]
                /\ pc[d] \in {"acquire", "settle"})
                => /\ pc'[d] = pc[d]
                   /\ cache_get(cache', vid[d], now) = job'[c].res.text
          /\ (LeavesCacheCheck(d) /\ Fresh(cache[vid[d]], now))
                => /\ pc'[d] = "exit"
                   /\ job'[d].res = ResText(cache[vid[d]].text, "cache")
                   /\ job'[d].attempt = 0 /\ job'[d].nFallback = 0 /\ job'[d].nSet = 0
                   /\ cache' = cache /\ fetched' = fetched
      ]_vars

\* two calls for one identifier with no time passing: the first fetched the
\* text and has left, the second got it from the cache
C33_Witness ==
    \E c, d \in Callers :
        /\ c # d /\ vid[c] = vid[d] /\ started = 2 /\ now = 0
        /\ pc[c] = "idle" /\ job[c].res.kind = "text" /\ job[c].releases = 1
        /\ pc[d] = "exit" /\ job[d].res.path = "cache" /\ job[d].attempt = 0
        /\ job[d].res.text = fetched[vid[d]].text



\* C34 (as claimed): every get_captions call ends in Done (a text) or Error (a
\* reason), after at most 5 attempts of fetch_primary, at most 4 backoff sleeps
\* and at most one call of the secondary source.
C34_EndsDoneOrError ==
    \A c \in Callers :
        /\ job[c].attempt <= PrimaryTries
        /\ job[c].sleeps <= PrimaryTries - 1
        /\ job[c].nFallback <= 1
        /\ pc[c] = "exit" => job[c].res.kind \in {"text", "fail"}

\* what does hold: the bounds, and that a call which ends otherwise ended by
\* an exception of the primary source that is no library error, at an attempt
\* that was not retried
C34_BoundedCalls ==
    \A c \in Callers :
        /\ job[c].attempt <= PrimaryTries
        /\ job[c].sleeps <= PrimaryTries - 1
        /\ job[c].sleeps = IF pc[c] = "sleep" THEN job[c].attempt - 1
                           ELSE IF job[c].attempt = 0 THEN 0 ELSE job[c].attempt - 1
        /\ job[c].nFallback <= 1
        /\ job[c].nFallback = 1 => job[c].attempt = PrimaryTries
        /\ pc[c] = "exit"
             => \/ job[c].res.kind \in {"text", "fail"}
                \/ job[c].res = ResRaise("OtherError") /\ job[c].lastExc = "OtherError"



C34_CallEnds ==
    \A c \in Callers : (pc[c] = "cache_check") ~> (pc[c] = "exit")

C36_ExtractorsAgree ==
    (pf.op = "agree" /\ pf.done /\ ShapeToken(pf.arg).some)
        => /\ pf.api = ShapeToken(pf.arg)
           /\ pf.app = ShapeToken(pf.arg)
           /\ pf.worker = ShapeToken(pf.arg)

\* what does hold: the three agree on the shapes ?v=, youtu.be/ and /embed/;
\* a /v/ URL is unknown to the worker's expression and a /shorts/ URL to the
\* application's extractor
C36_AgreeOnThreeShapes ==
    (pf.op = "agree" /\ pf.done /\ ShapeToken(pf.arg).some)
        => /\ pf.api = ShapeToken(pf.arg)
           /\ pf.app = IF pf.arg.v = <<>> /\ pf.arg.path[1] = KwShorts THEN NoneVal
                       ELSE ShapeToken(pf.arg)
           /\ pf.worker = IF pf.arg.v = <<>> /\ pf.arg.path[1] = KwV THEN NoneVal
                          ELSE ShapeToken(pf.arg)



\* the first get_transcript call of the last attempt raised 'captions
\* disabled' or 'no transcript'
ApiSaidNo ==
    /\ pf.op = "worker" /\ pf.stage # "api" /\ pf.calls > 0
    /\ pf.outs[1] \in {Raise("TranscriptsDisabled"), Raise("NoTranscriptFound")}

\* C37: in the worker pipeline a 'captions disabled' or 'no transcript'
\* outcome of the API source is surfaced at once: no further call of the API
\* source is made, the attempt is not retried, and yt-dlp is not run.
C37_DisabledSurfaced ==
    ApiSaidNo => /\ pf.calls = 1
                 /\ pf.attempt = 1
                 /\ pf.stage = "failed"
                 /\ pf.exc = pf.outs[1].v

\* what does hold: the outcome is passed over and the next language list is
\* tried; when all five end so the attempt raises NoTranscriptFound, which is
\* retried like every other exception, and after the third attempt yt-dlp is
\* run
C37_DisabledRetriedThenScraped ==
    ApiSaidNo => /\ pf.calls > 1
                 /\ pf.stage \in {"text", "wait", "fallback"}
                 /\ pf.stage = "wait" <=> (pf.exc # "none" /\ pf.attempt < ApiAttempts)
                 /\ pf.stage = "fallback" <=> (pf.exc # "none" /\ pf.attempt = ApiAttempts)
                 /\ (\A i \in 1..Len(lang_lists) : pf.outs[i].k = "raise"
                        /\ pf.outs[i].v \in {"TranscriptsDisabled", "NoTranscriptFound"})
                      => pf.exc = "NoTranscriptFound" /\ pf.calls = Len(lang_lists)



\* position of language l in preferred_languages, counted from 0; the length
\* of the list for a language that is not in it
PrefIndex(l) ==
    IF InPreferred(l)
    THEN (CHOOSE i \in 1..Len(preferred_languages) : preferred_languages[i] = l) - 1
    ELSE Len(preferred_languages)

\* C38: rank_transcript orders the tracks by preferred-language index first
\* and, at equal language rank, puts a manual track before an auto-generated
\* one.
C38_ManualBeforeGenerated ==
    (pf.op = "rank_transcript" /\ pf.done) =>
        \A i, j \in 1..Len(pf.out) :
            i < j => /\ PrefIndex(pf.out[i].lang) <= PrefIndex(pf.out[j].lang)
                     /\ PrefIndex(pf.out[i].lang) = PrefIndex(pf.out[j].lang)
                            => ~(pf.out[i].gen /\ ~pf.out[j].gen)

\* what does hold: the language index comes first, and at equal language
\* rank the auto-generated track comes before the manual one
C38_GeneratedBeforeManual ==
    (pf.op = "rank_transcript" /\ pf.done) =>
        \A i, j \in 1..Len(pf.out) :
            i < j => /\ PrefIndex(pf.out[i].lang) <= PrefIndex(pf.out[j].lang)
                     /\ PrefIndex(pf.out[i].lang) = PrefIndex(pf.out[j].lang)
                            => ~(~pf.out[i].gen /\ pf.out[j].gen)



\* C39: get_transcript_chunked is called again, up to 7 attempts, whenever
\* the upstream raises TooManyRequests or CouldNotRetrieveTranscript, and the
\* rate-limited error result is reported only after the 7th failed attempt.
C39_RetriedToSeven ==
    pf.op = "full" =>
        /\ (pf.stage = "got" /\ pf.lastErr \in on_exceptions) => pf.attempt = ChunkedTries
        /\ (pf.stage = "got" /\ pf.res.error_type = "rate_limited")
              => pf.attempt = ChunkedTries

\* what does hold: the function catches every exception itself, so the
\* decorator sees none: each call is one attempt, and one TooManyRequests
\* is reported as the rate-limited error result
C39_OneAttempt ==
    pf.op = "full" =>
        /\ pf.attempt = 1
        /\ pf.stage # "raised"
        /\ (pf.stage = "got" /\ pf.lastErr = "TooManyRequests")
              => pf.res.kind = "error" /\ pf.res.error_type = "rate_limited"
        /\ (pf.stage = "got" /\ pf.lastErr = "CouldNotRetrieveTranscript")
              => pf.res.kind = "error" /\ pf.res.error_type \notin {"none", "rate_limited"}



\* the text get_full_transcript is to return: the joined item texts of the
\* transcript the upstream serves
UpstreamText == JoinText(find_transcript(pf.up).items)

\* the position a cursor stands for
StartOf(c) == IF c.some THEN ToInt(c.s) ELSE 0

RECURSIVE ConcatTexts(_)
ConcatTexts(chunks) ==
    IF chunks = <<>> THEN <<>> ELSE chunks[1].text \o ConcatTexts(Tail(chunks))

\* C40: get_full_transcript terminates and returns the complete transcript:
\* it starts with no cursor and passes on each returned next_cursor, the
\* cursors strictly increase, no chunk is longer than max_chunk_size, the
\* loop ends at the first chunk without a next_cursor, and the chunk texts
\* put together are the full joined text, total_chars characters long (the
\* upstream serving the same transcript on every call; a call the upstream
\* fails ends the loop with that call's error result).
C40_FullTranscript ==
    /\ [](pf.op = "full" =>
            /\ pf.asked[1] = NoneVal
            /\ \A i \in 1..Len(pf.chunks) :
                   /\ Len(pf.chunks[i].text) <= pf.max
                   /\ i < Len(pf.asked) => /\ pf.chunks[i].next_cursor.some
                                           /\ pf.asked[i + 1] = pf.chunks[i].next_cursor
            /\ \A i, j \in 1..Len(pf.asked) :
                   i < j => StartOf(pf.asked[i]) < StartOf(pf.asked[j])
            /\ (pf.stage = "returned" /\ pf.out.kind = "full") =>
                   /\ find_transcript(pf.up).kind = "ok"
                   /\ Len(pf.asked) = Len(pf.chunks)
                   /\ pf.chunks[Len(pf.chunks)].next_cursor = NoneVal
                   /\ ConcatTexts(pf.chunks) = UpstreamText
                   /\ pf.out.text = UpstreamText
                   /\ pf.out.total_chars = Len(UpstreamText)
                   /\ pf.out.chunks = Len(pf.chunks)
            /\ (pf.stage = "returned" /\ pf.out.kind = "error"
                  /\ find_transcript(pf.up).kind = "ok") => pf.lastErr \in Faults)
    /\ (pf.op = "full" /\ pf.stage = "call") ~> (pf.op = "full" /\ pf.stage = "returned")

\* a later call returns a transcript of more than two chunks, one of them
\* asked for with a two-digit cursor, having been served from the cache
C40_Witness ==
    /\ pf.op = "full" /\ pf.stage = "returned" /\ pf.out.kind = "full"
    /\ pf.hits = 1
    /\ Len(pf.chunks) > 2
    /\ \E i \in 1..Len(pf.asked) : Len(pf.asked[i].s) = 2
    /\ pf.out.total_chars > 0


====
